---- MODULE Spec2Model ----
(***************************************************************************)
(* Chat exchange engine of willknow: the chat route (routes/chat.js), the  *)
(* turn loop runChat (services/llm.js) and the collaborator client         *)
(* (services/subagent.js), with the in-memory session state shared by all  *)
(* exchanges, and the bot channels: the channel manager with its message   *)
(* handler (services/channels/manager.js) and the QQ channel               *)
(* (services/channels/qq.js).                                              *)
(*                                                                         *)
(* JavaScript runs each handler to its next await without interruption, so *)
(* one action is the code between two awaits of one exchange: it ends when *)
(* the exchange waits for the probes, for the upstream model or for a      *)
(* collaborator, or when the stream is closed.  Reading the answer of the  *)
(* model is one wait per chunk: each text delta is written in a step of    *)
(* its own.                                                                *)
(***************************************************************************)
EXTENDS Naturals, Sequences, FiniteSets, TLC

\* ------------------------------------------------------------------------
\* Bounds of the model (not program constants)
\* ------------------------------------------------------------------------

\* number of chat exchanges (POST /chat requests) in one run
NumExchanges == 2

\* number of tool requests, over all exchanges of a run, in model answers
\* drawn from VariedResponses; the other answers are plain text or the
\* request of one unknown tool
MaxRequests == 2

\* number of content blocks (or runs of ignored lines) in a Format-A stream
MaxBlocks == 3

\* number of chunks of a Format-B stream before its ending
MaxChunks == 3

\* ------------------------------------------------------------------------
\* JavaScript values
\* ------------------------------------------------------------------------

\* the value undefined (an absent property, a missing argument)
Undefined == "<undefined>"

\* JavaScript truthiness of a string-or-undefined value: if (v), v || d
Truthy(v) == v # Undefined /\ v # ""

\* `${v}` for a string-or-undefined value
Str(v) == IF v = Undefined THEN "undefined" ELSE v

\* obj[key] on a plain object: undefined when the key is absent
Lookup(obj, key) == IF key \in DOMAIN obj THEN obj[key] ELSE Undefined

\* obj[key] = value
Store(obj, key, value) ==
  [k \in DOMAIN obj \cup {key} |-> IF k = key THEN value ELSE obj[k]]

\* the empty object {}
EmptyObject == [k \in {} |-> Undefined]

\* what property reads on the session object of a conversation see:
\* conversationSessions is a plain object, so conversationSessions['__proto__']
\* is Object.prototype itself (the entry of that key holds the properties set
\* on it), and the object of any other key inherits from it
PrototypeChain(all, key, own) ==
  LET proto == IF key # "__proto__" /\ "__proto__" \in DOMAIN all THEN all["__proto__"]
               ELSE own
  IN [k \in DOMAIN own \cup DOMAIN proto |-> IF k \in DOMAIN own THEN own[k] ELSE proto[k]]

\* JSON values a tool_use input can parse to
NullInput == [kind |-> "null"]
ObjectInput(m) == [kind |-> "object", message |-> m]
EmptyInput == [kind |-> "object"]
SkillInput(n) == [kind |-> "object", skill_name |-> n]

\* tc.input.message: a property read, which throws on null
InputMessageThrows(input) == input.kind = "null"
InputMessage(input) == IF "message" \in DOMAIN input THEN input.message ELSE Undefined

\* tc.input?.skill_name
InputSkillName(input) ==
  IF "skill_name" \in DOMAIN input THEN input.skill_name ELSE Undefined

\* the TypeError message of reading .message of null
NullReadError == "Cannot read properties of null (reading 'message')"

\* ------------------------------------------------------------------------
\* Configuration (config.json as read by readConfig)
\* ------------------------------------------------------------------------

\* collaborator ids are sequences of characters
IdA == <<"a">>
IdB == <<"b">>
IdC == <<"c">>

subAgents ==
  << [id |-> IdA, name |-> "Alpha", enabled |-> TRUE],
     [id |-> IdB, name |-> "Beta", enabled |-> TRUE],
     [id |-> IdC, name |-> "Gamma", enabled |-> FALSE] >>

models == << [provider |-> "anthropic", isDefault |-> TRUE] >>

\* capability bundles (SkillConfig: name, description, content, enabled)
SkillPdf == [name |-> "pdf", description |-> "r&w <pdf>", content |-> "PDF-BODY", enabled |-> TRUE]
SkillCsv == [name |-> "csv", description |-> "tables", content |-> "CSV-BODY", enabled |-> FALSE]
SkillCsvOn == [name |-> "csv", description |-> "tables", content |-> "CSV-BODY", enabled |-> TRUE]

\* config.skills: one enabled and one disabled bundle are installed
skillsConfig == <<SkillPdf, SkillCsv>>

\* getDefaultModel: config.models.find(m => m.isDefault) || config.models[0] || null
getDefaultModel ==
  LET marked == {i \in 1..Len(models) : models[i].isDefault} IN
  IF marked # {} THEN models[CHOOSE i \in marked : \A j \in marked : i <= j]
  ELSE IF Len(models) > 0 THEN models[1]
  ELSE [provider |-> "null", isDefault |-> FALSE]

\* ------------------------------------------------------------------------
\* Collaborator client (services/subagent.js)
\* ------------------------------------------------------------------------

\* id.replace(/-/g, '_')
ReplaceDashes(id) == [i \in 1..Len(id) |-> IF id[i] = "-" THEN "_" ELSE id[i]]

\* (info.capabilities || []).map(c => `- ${c.name}: ${c.description}`).join('\n'),
\* as its parts
RECURSIVE capList(_)
capList(caps) ==
  IF caps = Undefined \/ caps = <<>> THEN <<>>
  ELSE << "- ", Str(caps[1].name), ": ", Str(caps[1].description) >>
       \o (IF Len(caps) = 1 THEN <<>> ELSE <<"\n">> \o capList(Tail(caps)))

\* buildSubAgentTool: the registry entry of a probed collaborator.  The
\* description is kept as its parts: display name, ": ", info.description
\* or '', and the capability list when there is one.
buildSubAgentTool(sa, info) ==
  [ subAgentId |-> sa.id,
    tool |-> [ name |-> <<"subagent_">> \o ReplaceDashes(sa.id),
               description |->
                 << IF Truthy(info.name) THEN info.name ELSE sa.name,
                    ": ",
                    IF Truthy(info.description) THEN info.description ELSE "" >>
                 \o (IF capList(info.capabilities) # <<>>
                     THEN <<"\n\nCapabilities:\n">> \o capList(info.capabilities)
                     ELSE <<>>) ] ]

\* the info a reachable collaborator answers on /willknow/info: its name
\* and a description; the collaborator a_b answers a capability list only
ProbeInfo(sa) ==
  IF sa.id = <<"a", "_", "b">>
  THEN [name |-> Undefined, description |-> Undefined,
        capabilities |-> << [name |-> "sum", description |-> "adds"] >>]
  ELSE [name |-> sa.name, description |-> "does things", capabilities |-> Undefined]

\* (variant: the first failed probe ends the loading)
RECURSIVE loadSubAgentToolsStopAtFailure(_, _, _)
loadSubAgentToolsStopAtFailure(sas, probeOk, i) ==
  IF i > Len(sas) THEN <<>>
  ELSE IF ~sas[i].enabled THEN loadSubAgentToolsStopAtFailure(sas, probeOk, i + 1)
  ELSE IF probeOk[i]
       THEN <<buildSubAgentTool(sas[i], ProbeInfo(sas[i]))>>
            \o loadSubAgentToolsStopAtFailure(sas, probeOk, i + 1)
       ELSE <<>>

\* loadSubAgentTools: one entry per enabled collaborator whose probe
\* succeeded, in configuration order; probeOk[i] is the outcome of the probe
\* of the i-th configured collaborator
RECURSIVE loadSubAgentTools(_, _, _)
loadSubAgentTools(sas, probeOk, i) ==
  IF i > Len(sas) THEN <<>>
  ELSE IF sas[i].enabled /\ probeOk[i]
       THEN <<buildSubAgentTool(sas[i], ProbeInfo(sas[i]))>>
            \o loadSubAgentTools(sas, probeOk, i + 1)
       ELSE loadSubAgentTools(sas, probeOk, i + 1)

\* callSubAgent: the request body; session_id is set only for a truthy token
callSubAgentBody(message, sessionId) ==
  [ message |-> message,
    session_id |-> IF Truthy(sessionId) THEN sessionId ELSE Undefined ]

\* ------------------------------------------------------------------------
\* Content blocks, messages and progress events
\* ------------------------------------------------------------------------

TextBlock(t) == [type |-> "text", text |-> t]
ToolUse(id, name, input) == [type |-> "tool_use", id |-> id, name |-> name, input |-> input]
\* (variant: the two fields of the block are filled the wrong way round)
ToolResultSwapped(id, content) ==
  [type |-> "tool_result", tool_use_id |-> content, content |-> id]

ToolResult(id, content) == [type |-> "tool_result", tool_use_id |-> id, content |-> content]

\* a message whose content is a string, and one whose content is a block array
TextMessage(role, t) == [role |-> role, text |-> t]
BlockMessage(role, blocks) == [role |-> role, content |-> blocks]

TextEvent(t) == [type |-> "text", content |-> t]
ToolCallEvent(tool, agentName, input) ==
  [type |-> "tool_call", tool |-> tool, agentName |-> agentName, input |-> input]
ToolResultEvent(tool, content) == [type |-> "tool_result", tool |-> tool, content |-> content]
ErrorEvent(m) == [type |-> "error", message |-> m]
DoneEvent == [type |-> "done"]

\* seq.filter(pred) for the blocks of one type
RECURSIVE FilterType(_, _)
FilterType(blocks, type) ==
  IF blocks = <<>> THEN <<>>
  ELSE IF Head(blocks).type = type
       THEN <<Head(blocks)>> \o FilterType(Tail(blocks), type)
       ELSE FilterType(Tail(blocks), type)

\* names.join(', ')
RECURSIVE Join(_)
Join(names) ==
  IF names = <<>> THEN ""
  ELSE IF Len(names) = 1 THEN names[1]
  ELSE names[1] \o ", " \o Join(Tail(names))

\* ------------------------------------------------------------------------
\* Turn loop (services/llm.js, runChat)
\* ------------------------------------------------------------------------

MAX_TURNS == 10

\* (variant: the loop condition off by one, turn <= MAX_TURNS)
TurnGuardInclusive(t) == t <= MAX_TURNS

\* the loop condition of runChat: turn < MAX_TURNS
TurnGuard(t) == t < MAX_TURNS

\* skills is an optional parameter of runChat (default []); neither caller
\* passes it
DefaultSkills == <<>>

\* (variant: the filter on enabled is missing)
EnabledSkillsUnfiltered(list) == list

\* skills.filter(s => s.enabled)
RECURSIVE EnabledSkills(_)
EnabledSkills(skills) ==
  IF skills = <<>> THEN <<>>
  ELSE IF Head(skills).enabled
       THEN <<Head(skills)>> \o EnabledSkills(Tail(skills))
       ELSE EnabledSkills(Tail(skills))

ReadSkillName == <<"read_skill">>

\* the characters of the names and descriptions used in the model
Spell(str) ==
  CASE str = "pdf" -> <<"p", "d", "f">>
    [] str = "csv" -> <<"c", "s", "v">>
    [] str = "r&w <pdf>" -> <<"r", "&", "w", " ", "<", "p", "d", "f", ">">>
    [] str = "tables" -> <<"t", "a", "b", "l", "e", "s">>
    [] OTHER -> <<str>>

\* xmlEscape: & < > are replaced by their entities
RECURSIVE xmlEscapeChars(_)
xmlEscapeChars(chars) ==
  IF chars = <<>> THEN ""
  ELSE (CASE Head(chars) = "&" -> "&amp;"
          [] Head(chars) = "<" -> "&lt;"
          [] Head(chars) = ">" -> "&gt;"
          [] OTHER -> Head(chars)) \o xmlEscapeChars(Tail(chars))

xmlEscape(str) == xmlEscapeChars(Spell(str))

\* the value null of buildSystemPrompt, and a prompt as its lines (the source
\* joins them with newlines)
NoPrompt == [kind |-> "null"]
Prompt(lines) == [kind |-> "string", lines |-> lines]

\* the lines of the <skill> element of one skill
SkillItem(s) ==
  << "  <skill>",
     "    <name>" \o xmlEscape(s.name) \o "</name>",
     "    <description>" \o xmlEscape(s.description) \o "</description>",
     "  </skill>" >>

RECURSIVE SkillItems(_)
SkillItems(list) ==
  IF list = <<>> THEN <<>> ELSE SkillItem(Head(list)) \o SkillItems(Tail(list))

\* (variant: the prompt also carries the content of each skill)
buildSystemPromptWithContent(list) ==
  IF Len(list) = 0 THEN NoPrompt
  ELSE Prompt(<< "You have access to the following skills that extend your capabilities.",
                 "When a user task matches a skill's description, use the read_skill tool to load the full instructions before proceeding.",
                 "",
                 "<available_skills>" >>
              \o SkillItems(list) \o [i \in 1..Len(list) |-> list[i].content]
              \o << "</available_skills>" >>)

\* buildSystemPrompt: null without skills, else the metadata of each skill
buildSystemPrompt(list) ==
  IF Len(list) = 0 THEN NoPrompt
  ELSE Prompt(<< "You have access to the following skills that extend your capabilities.",
                 "When a user task matches a skill's description, use the read_skill tool to load the full instructions before proceeding.",
                 "",
                 "<available_skills>" >>
              \o SkillItems(list)
              \o << "</available_skills>" >>)

\* (variant: the system prompt is sent whenever it was built, null included)
RequestBodyAlwaysSystem(systemPrompt, tools) ==
  [system |-> systemPrompt] @@ (IF Len(tools) > 0 THEN [tools |-> tools] ELSE EmptyObject)

\* callAnthropic: the parts of the request body that depend on the skills;
\* system is set for a truthy prompt, tools for a non-empty list (messages
\* is the history at the time of the call)
RequestBody(systemPrompt, tools) ==
  (IF systemPrompt.kind = "string" THEN [system |-> systemPrompt] ELSE EmptyObject)
    @@ (IF Len(tools) > 0 THEN [tools |-> tools] ELSE EmptyObject)

\* the tool names sent to the model: collaborator tools, then read_skill
\* when a skill is enabled
ToolNames(entries, enabledSkills) ==
  [i \in 1..Len(entries) |-> entries[i].tool.name]
    \o (IF Len(enabledSkills) > 0 THEN <<ReadSkillName>> ELSE <<>>)

\* the read_skill branch: the content of the enabled skill of that name, or
\* the list of the enabled names
ReadSkillResult(enabledSkills, input) ==
  LET skillName == InputSkillName(input)
      hits == {k \in 1..Len(enabledSkills) : enabledSkills[k].name = skillName}
  IN IF hits # {}
     THEN enabledSkills[CHOOSE k \in hits : \A j \in hits : k <= j].content
     ELSE "Skill \"" \o Str(skillName) \o "\" not found. Available: "
          \o Join([k \in 1..Len(enabledSkills) |-> enabledSkills[k].name])

\* (variant: an unknown name falls back to the first entry of the registry)
FindEntryOrFirst(entries, name) ==
  LET hits == {k \in 1..Len(entries) : entries[k].tool.name = name} IN
  IF hits # {} THEN CHOOSE k \in hits : \A j \in hits : k <= j
  ELSE IF entries = <<>> THEN 0 ELSE 1

\* subAgentTools.find(e => e.tool.name === name): its index, 0 when absent
FindEntry(entries, name) ==
  LET hits == {k \in 1..Len(entries) : entries[k].tool.name = name} IN
  IF hits = {} THEN 0 ELSE CHOOSE k \in hits : \A j \in hits : k <= j

ToolNotFound == "Tool not found"

\* the prefix of the result of a failed delegation (a Chinese literal in the
\* source, "call failed: ")
CallFailedPrefix == "call failed: "

\* (variant: the stored token is not passed to callSubAgent)
StartCallNoSession(entry, sessions, trn, i, tc) ==
  [ turn |-> trn, idx |-> i, subAgentId |-> entry.subAgentId, tool |-> tc.name,
    body |-> callSubAgentBody(InputMessage(tc.input), Undefined) ]

\* the collaborator call the loop starts for request i of the turn
StartCall(entry, sessions, trn, i, tc) ==
  [ turn |-> trn, idx |-> i, subAgentId |-> entry.subAgentId, tool |-> tc.name,
    body |-> callSubAgentBody(InputMessage(tc.input), Lookup(sessions, entry.subAgentId)) ]

\* (variant: the calls are started without awaiting each one, as with
\* Promise.all over the requests)
RECURSIVE DispatchNoAwait(_, _, _, _, _, _, _, _)
DispatchNoAwait(entries, enabledSkills, sessions, trn, tcs, i, results, evs) ==
  IF i > Len(tcs)
  THEN [status |-> "complete", results |-> results, events |-> evs,
        started |-> {}, error |-> ""]
  ELSE LET tc == tcs[i] IN
    IF tc.name = ReadSkillName
    THEN DispatchNoAwait(entries, enabledSkills, sessions, trn, tcs, i + 1,
                  Append(results, ToolResult(tc.id, ReadSkillResult(enabledSkills, tc.input))),
                  evs)
    ELSE LET k == FindEntry(entries, tc.name) IN
      IF k = 0
      THEN DispatchNoAwait(entries, enabledSkills, sessions, trn, tcs, i + 1,
                    Append(results, ToolResult(tc.id, ToolNotFound)), evs)
      ELSE IF InputMessageThrows(tc.input)
      THEN [status |-> "throw", results |-> results, events |-> evs,
            started |-> {}, error |-> NullReadError]
      ELSE LET rest == DispatchNoAwait(entries, enabledSkills, sessions, trn, tcs, i + 1, results,
                         Append(evs, ToolCallEvent(tc.name, entries[k].tool.description[1],
                                                   InputMessage(tc.input))))
           IN [ status |-> IF rest.status = "throw" THEN "throw" ELSE "await",
                results |-> results, events |-> rest.events,
                started |-> rest.started \cup {StartCall(entries[k], sessions, trn, i, tc)},
                error |-> rest.error ]

\* The body of "for (const tc of toolCalls)" from request i up to the next
\* await: read_skill and unknown names are answered at once, a collaborator
\* request emits tool_call, starts the call and waits for it.
\*   status "await": one call was started (started), the loop is suspended
\*   status "throw": an exception left runChat (error)
\*   status "complete": every request has its result
RECURSIVE Dispatch(_, _, _, _, _, _, _, _)
Dispatch(entries, enabledSkills, sessions, trn, tcs, i, results, evs) ==
  IF i > Len(tcs)
  THEN [status |-> "complete", results |-> results, events |-> evs,
        started |-> {}, error |-> ""]
  ELSE LET tc == tcs[i] IN
    IF tc.name = ReadSkillName
    THEN Dispatch(entries, enabledSkills, sessions, trn, tcs, i + 1,
                  Append(results, ToolResult(tc.id, ReadSkillResult(enabledSkills, tc.input))),
                  evs)
    ELSE LET k == FindEntry(entries, tc.name) IN
      IF k = 0
      THEN Dispatch(entries, enabledSkills, sessions, trn, tcs, i + 1,
                    Append(results, ToolResult(tc.id, ToolNotFound)), evs)
      ELSE IF InputMessageThrows(tc.input)
      THEN [status |-> "throw", results |-> results, events |-> evs,
            started |-> {}, error |-> NullReadError]
      ELSE [status |-> "await", results |-> results,
            events |-> Append(evs, ToolCallEvent(tc.name, entries[k].tool.description[1],
                                                 InputMessage(tc.input))),
            started |-> {StartCall(entries[k], sessions, trn, i, tc)},
            error |-> ""]

\* (variant: the tool_result event names the collaborator instead of the tool)
CallOutcomeEventByAgentId(sessions, call, tc, outcome) ==
  IF outcome.ok
  THEN [ sessions |-> Store(sessions, call.subAgentId, outcome.session_id),
         event |-> ToolResultEvent(call.subAgentId, outcome.message),
         result |-> ToolResult(tc.id, outcome.message) ]
  ELSE [ sessions |-> sessions,
         event |-> ToolResultEvent(call.subAgentId, CallFailedPrefix \o outcome.error),
         result |-> ToolResult(tc.id, CallFailedPrefix \o outcome.error) ]

\* (variant: a failed delegation is reported as text instead of tool_result)
CallOutcomeFailureAsText(sessions, call, tc, outcome) ==
  IF outcome.ok
  THEN [ sessions |-> Store(sessions, call.subAgentId, outcome.session_id),
         event |-> ToolResultEvent(tc.name, outcome.message),
         result |-> ToolResult(tc.id, outcome.message) ]
  ELSE [ sessions |-> sessions,
         event |-> TextEvent(CallFailedPrefix \o outcome.error),
         result |-> ToolResult(tc.id, CallFailedPrefix \o outcome.error) ]

\* (variant: the token is stored only when the reply carries one)
CallOutcomeKeepToken(sessions, call, tc, outcome) ==
  IF outcome.ok
  THEN [ sessions |-> IF Truthy(outcome.session_id)
                      THEN Store(sessions, call.subAgentId, outcome.session_id)
                      ELSE sessions,
         event |-> ToolResultEvent(tc.name, outcome.message),
         result |-> ToolResult(tc.id, outcome.message) ]
  ELSE [ sessions |-> sessions,
         event |-> ToolResultEvent(tc.name, CallFailedPrefix \o outcome.error),
         result |-> ToolResult(tc.id, CallFailedPrefix \o outcome.error) ]

\* (variant: a token is stored only while none is stored for the collaborator)
CallOutcomeKeepFirst(sessions, call, tc, outcome) ==
  IF outcome.ok
  THEN [ sessions |-> IF Lookup(sessions, call.subAgentId) = Undefined
                      THEN Store(sessions, call.subAgentId, outcome.session_id)
                      ELSE sessions,
         event |-> ToolResultEvent(tc.name, outcome.message),
         result |-> ToolResult(tc.id, outcome.message) ]
  ELSE [ sessions |-> sessions,
         event |-> ToolResultEvent(tc.name, CallFailedPrefix \o outcome.error),
         result |-> ToolResult(tc.id, CallFailedPrefix \o outcome.error) ]

\* what the loop does with the outcome of the call it awaited: the new
\* session object, the event and the tool_result
CallOutcome(sessions, call, tc, outcome) ==
  IF outcome.ok
  THEN [ sessions |-> Store(sessions, call.subAgentId, outcome.session_id),
         event |-> ToolResultEvent(tc.name, outcome.message),
         result |-> ToolResult(tc.id, outcome.message) ]
  ELSE [ sessions |-> sessions,
         event |-> ToolResultEvent(tc.name, CallFailedPrefix \o outcome.error),
         result |-> ToolResult(tc.id, CallFailedPrefix \o outcome.error) ]

\* ------------------------------------------------------------------------
\* Chat route (routes/chat.js)
\* ------------------------------------------------------------------------

\* (variant: a request without an id joins the conversation c1)
ConversationKeyJoinsNamed(conversationId) ==
  IF Truthy(conversationId) THEN conversationId ELSE "c1"

\* const cid = conversationId || 'default'
ConversationKey(conversationId) ==
  IF Truthy(conversationId) THEN conversationId ELSE "default"

\* send('done', {}) after runChat returned
SendDone(evs) == Append(evs, DoneEvent)

\* (variant: done is sent after the try block whatever happened)
SendErrorThenDone(evs, message) == Append(Append(evs, ErrorEvent(message)), DoneEvent)

\* (variant: the catch block sends nothing)
SendErrorSwallowed(evs, message) == evs

\* catch (err) { send('error', { message: err.message }) }
SendError(evs, message) == Append(evs, ErrorEvent(message))

\* ------------------------------------------------------------------------
\* Environment: callers, upstream model, collaborators
\* ------------------------------------------------------------------------

Exchanges == 1..NumExchanges

\* request bodies of POST /chat
HistoryInputs ==
  { <<>>, <<TextMessage("user", "hi"), TextMessage("assistant", "hello")>> }

RequestBodies ==
  [ message : {"", "2+2?"}, conversationId : {"c1", Undefined}, history : HistoryInputs ]

\* outcomes of the probes of the configured collaborators
ProbeOutcomes ==
  { f \in [1..Len(subAgents) -> BOOLEAN] :
      \A i \in 1..Len(subAgents) : ~subAgents[i].enabled => ~f[i] }

\* tool names the model may ask for
NameA == <<"subagent_">> \o IdA
NameB == <<"subagent_">> \o IdB
NameX == <<"subagent_", "x">>

\* what one successful model call returns: the text fragments streamed while
\* it ran and the content blocks of the assistant message
TextResponse == [fragments |-> <<"4">>, content |-> <<TextBlock("4")>>]
UnknownToolResponse ==
  [fragments |-> <<>>, content |-> <<ToolUse("tu1", NameX, ObjectInput("go"))>>]

\* a text block that arrives in two fragments
StreamedTextResponse ==
  [fragments |-> <<"2+2 ", "is 4">>, content |-> <<TextBlock("2+2 is 4")>>]

PlainResponses == {TextResponse, StreamedTextResponse, UnknownToolResponse}

VariedResponses ==
  { [fragments |-> <<"let me ", "ask">>,
     content |-> <<TextBlock("let me ask"), ToolUse("tu1", NameA, ObjectInput("go"))>>],
    [fragments |-> <<>>,
     content |-> <<ToolUse("tu1", NameA, ObjectInput("go")),
                   ToolUse("tu2", NameA, ObjectInput("on"))>>],
    [fragments |-> <<>>,
     content |-> <<ToolUse("tu1", NameA, EmptyInput), ToolUse("tu2", NameB, ObjectInput("go"))>>],
    [fragments |-> <<>>,
     content |-> <<ToolUse("", NameX, ObjectInput("go")), ToolUse("", NameA, ObjectInput("go"))>>],
    [fragments |-> <<>>, content |-> <<ToolUse("tu1", NameA, NullInput)>>],
    [fragments |-> <<>>,
     content |-> <<ToolUse("tu1", NameX, ObjectInput("go")), ToolUse("tu2", NameA, NullInput)>>],
    [fragments |-> <<>>,
     content |-> <<ToolUse("tu1", NameA, ObjectInput("go")), ToolUse("tu2", NameA, NullInput)>>],
    [fragments |-> <<>>, content |-> <<ToolUse("tu1", ReadSkillName, SkillInput("pdf"))>>] }

\* the number of tool requests of an answer
Cost(resp) == Len(FilterType(resp.content, "tool_use"))

\* the answers counted against the budget: those with tool requests, but for
\* the request of the one unknown tool
Counted(resp) == Cost(resp) > 0 /\ resp # UnknownToolResponse

\* error messages of a failed model call (callAnthropic / callOpenAICompatible)
UpstreamError(model) ==
  IF model.provider = "anthropic" THEN "Anthropic error 500: overloaded"
  ELSE "LLM error 500: overloaded"

\* outcomes of one delegation call: a reply (with or without a token), or an
\* exception (non-2xx thrown by callSubAgent, or a rejected fetch: network
\* failure, timeout)
ReplyTokens == {"s1", "s2", "", Undefined}

CollaboratorOutcomes ==
  { [ok |-> TRUE, message |-> "42", session_id |-> t] : t \in ReplyTokens }
  \cup { [ok |-> FALSE, error |-> m] :
           m \in { "SubAgent error 500: boom",
                   "The operation was aborted due to timeout" } }

\* ------------------------------------------------------------------------
\* Provider adapters (services/llm.js): the lines of a response stream
\* ------------------------------------------------------------------------

\* JSON.parse on the payloads of the model: the value, or a SyntaxError
JSONParse(raw) ==
  CASE raw = "{\"a\":1}" -> [ok |-> TRUE, value |-> [kind |-> "object", a |-> 1]]
    [] raw = "{}" -> [ok |-> TRUE, value |-> EmptyInput]
    [] raw = "null" -> [ok |-> TRUE, value |-> NullInput]
    [] OTHER -> [ok |-> FALSE]

\* (variant: the parse is not wrapped in try/catch)
ParseInputUncaught(raw) ==
  IF JSONParse(raw).ok THEN [threw |-> FALSE, input |-> JSONParse(raw).value]
  ELSE [threw |-> TRUE, input |-> EmptyInput]

\* try { input = JSON.parse(raw) } catch { input = {} }
ParseInput(raw) ==
  [threw |-> FALSE, input |-> IF JSONParse(raw).ok THEN JSONParse(raw).value ELSE EmptyInput]

\* the lines iterLines yields: a line that does not start with "data: ", a
\* data line that is empty, "[DONE]", not JSON, or an event
OtherLine == [kind |-> "other"]
EmptyData == [kind |-> "empty"]
DoneLine == [kind |-> "done"]
GarbageData == [kind |-> "garbage"]
DataLine(ev) == [kind |-> "event", event |-> ev]

\* Format A events
BlockStartText == [type |-> "content_block_start", content_block |-> [type |-> "text"]]
BlockStartTool(id, name) ==
  [type |-> "content_block_start", content_block |-> [type |-> "tool_use", id |-> id, name |-> name]]
TextDelta(t) == [type |-> "content_block_delta", delta |-> [type |-> "text_delta", text |-> t]]
JsonDelta(p) ==
  [type |-> "content_block_delta", delta |-> [type |-> "input_json_delta", partial_json |-> p]]
BlockStop == [type |-> "content_block_stop"]
Ping == [type |-> "ping"]

\* what an upstream sends in Format A: text blocks, tool blocks whose input
\* payload arrives in fragments, and lines the adapter ignores; a block whose
\* stop is missing is one the stream was cut in (the upstream gave up, as
\* after an error event)
StreamBlocks ==
  { [kind |-> "text", fragments |-> <<"Hel", "lo">>, stop |-> TRUE],
    [kind |-> "text", fragments |-> <<"">>, stop |-> TRUE],
    [kind |-> "text", fragments |-> <<"Hel">>, stop |-> FALSE],
    [kind |-> "tool", id |-> "tu1", name |-> "f", fragments |-> <<>>, stop |-> TRUE],
    [kind |-> "tool", id |-> "tu2", name |-> "g", fragments |-> <<"{\"a\":1", "}">>, stop |-> TRUE],
    [kind |-> "tool", id |-> "tu3", name |-> "f", fragments |-> <<"{\"a\":1">>, stop |-> TRUE],
    [kind |-> "tool", id |-> "tu4", name |-> "g", fragments |-> <<"null">>, stop |-> TRUE],
    [kind |-> "tool", id |-> "tu5", name |-> "f", fragments |-> <<"{}">>, stop |-> FALSE],
    [kind |-> "ignored", lines |-> <<OtherLine, GarbageData>>],
    [kind |-> "ignored", lines |-> <<EmptyData, DataLine(Ping), DoneLine>>] }

\* the lines of one block: start, one delta per fragment, stop
BlockLines(b) ==
  CASE b.kind = "text" ->
         <<DataLine(BlockStartText)>>
           \o [i \in 1..Len(b.fragments) |-> DataLine(TextDelta(b.fragments[i]))]
           \o (IF b.stop THEN <<DataLine(BlockStop)>> ELSE <<>>)
    [] b.kind = "tool" ->
         <<DataLine(BlockStartTool(b.id, b.name))>>
           \o [i \in 1..Len(b.fragments) |-> DataLine(JsonDelta(b.fragments[i]))]
           \o (IF b.stop THEN <<DataLine(BlockStop)>> ELSE <<>>)
    [] OTHER -> b.lines

\* a stream is a sequence of blocks; once a block was cut, only lines the
\* adapter ignores follow
WellFormed(bs) ==
  \A i \in 1..Len(bs) : \A j \in 1..Len(bs) :
    (i < j /\ bs[i].kind # "ignored" /\ ~bs[i].stop) => bs[j].kind = "ignored"

RECURSIVE BlocksLines(_)
BlocksLines(bs) == IF bs = <<>> THEN <<>> ELSE BlockLines(Head(bs)) \o BlocksLines(Tail(bs))

\* sequences over a set, up to a length
SeqsUpTo(S, n) == UNION {[1..k -> S] : k \in 0..n}

\* Format B chunks: a text fragment, or a fragment of the tool call at an
\* index (id, name and arguments are each present or not), or a finish
\* reason, which an upstream may send before its last chunk and more than
\* once
TextChunk(t) == [delta |-> [content |-> t, tool_calls |-> <<>>], finish_reason |-> Undefined]
ToolChunk(index, id, name, arguments) ==
  [ delta |-> [ content |-> Undefined,
                tool_calls |-> << [index |-> index, id |-> id, name |-> name,
                                   arguments |-> arguments] >> ],
    finish_reason |-> Undefined ]
FinishChunk(reason) ==
  [delta |-> [content |-> Undefined, tool_calls |-> <<>>], finish_reason |-> reason]

ChunkLines ==
  { DataLine(TextChunk("Hi")),
    DataLine(TextChunk("")),
    DataLine(ToolChunk(0, "call_0", "f", Undefined)),
    DataLine(ToolChunk(0, Undefined, Undefined, "{\"a\":1")),
    DataLine(ToolChunk(0, Undefined, Undefined, "}")),
    DataLine(ToolChunk(1, Undefined, Undefined, "{}")),
    DataLine(FinishChunk("tool_calls")),
    GarbageData }

\* how a Format B stream ends: without a signal, with a finish reason, with
\* [DONE], or both
StreamEndings ==
  { <<>>,
    <<DataLine(FinishChunk("stop"))>>,
    <<DataLine(FinishChunk("tool_calls"))>>,
    <<DoneLine>>,
    <<DataLine(FinishChunk("length")), DoneLine>>,
    <<DataLine(FinishChunk("tool_calls")), DoneLine>> }

\* no tool block is open (currentToolUse = null)
NoToolUse == [type |-> "null"]

\* Object.values(toolCallBuffers): an object with integer keys is
\* enumerated in ascending key order
RECURSIVE BufferValues(_, _)
BufferValues(buffers, keys) ==
  IF keys = {} THEN <<>>
  ELSE LET k == CHOOSE x \in keys : \A y \in keys : x <= y IN
       <<buffers[k]>> \o BufferValues(buffers, keys \ {k})

\* the tool_use blocks pushed for a list of buffers, all of them or only
\* those with a name; threw tells that a parse raised
RECURSIVE PushBuffers(_, _)
PushBuffers(bufs, namedOnly) ==
  IF bufs = <<>> THEN [threw |-> FALSE, blocks |-> <<>>]
  ELSE LET rest == PushBuffers(Tail(bufs), namedOnly)
           parsed == ParseInput(Head(bufs).argsRaw)
       IN IF namedOnly /\ ~Truthy(Head(bufs).name) THEN rest
          ELSE [ threw |-> parsed.threw \/ rest.threw,
                 blocks |-> <<ToolUse(Head(bufs).id, Head(bufs).name, parsed.input)>>
                              \o rest.blocks ]

\* ------------------------------------------------------------------------
\* State
\* ------------------------------------------------------------------------

VARIABLES
  pc,                   \* per exchange: where its handler is suspended
  req,                  \* per exchange: the request body
  subAgentTools,        \* per exchange: the registry entries of loadSubAgentTools
  history,              \* per exchange: runChat's copy of the messages
  turn,                 \* per exchange: the loop variable of runChat
  toolCalls,            \* per exchange: the tool_use blocks of the current turn
  toolResults,          \* per exchange: the tool_result blocks of the current turn
  inflight,             \* per exchange: the collaborator calls not yet returned
  events,               \* per exchange: what was written to the response stream
  conversationSessions, \* conversation key -> (collaborator id -> token)
  llmCalls,             \* per exchange: number of callLLM invocations (history variable)
  llmFailed,            \* per exchange: number of failed model calls (history variable)
  lastToken,            \* <<key, id>> -> token of the latest successful delegation (history variable)
  varied,               \* number of tool requests in varied model answers so far
  skills,               \* per exchange: the skills argument of runChat
  upstream,             \* per exchange: system and tools of the body sent to the model
  probed,               \* per exchange: the outcomes of the discovery probes (history variable)
  eventTurn,            \* per exchange: the turn in which each event was written (history variable)
  streamed,             \* per exchange: the text deltas the running model call passed to onEvent
  format,               \* the adapter that reads the stream: "anthropic", "openai" or "none"
  sentBlocks,           \* the blocks a Format-A upstream sent (history variable)
  stream,               \* the lines of the response stream
  pos,                  \* the next line of the stream
  parserPc,             \* "loop", "after" (the loop was left), "returned" or "threw"
  content,              \* the content blocks of the message being built
  currentText,          \* parseAnthropicStream: the text of the open text block
  currentToolUse,       \* parseAnthropicStream: the open tool block, or NoToolUse
  textBuffer,           \* parseOAIStream: the text received
  toolCallBuffers,      \* parseOAIStream: index -> [id, name, argsRaw]
  finished,             \* parseOAIStream: a terminal signal was seen
  emitted,              \* the text events the adapter passed to onEvent
  messages,             \* the history given to callAnthropic / callOpenAICompatible
  bodyMessages,         \* body.messages of the request being built
  msgPos,               \* the messages of the history translated so far
  closedAt,             \* per exchange: {n} once the caller disconnected, after n events; else {}
  log,                  \* the delegation calls started and returned, in order (history variable)
  saConfig,             \* config.subAgents as given to loadSubAgentTools
  registry,             \* the entries loadSubAgentTools returned for saConfig
  found,                \* the tool the model named and the entry runChat found for it
  regPc,                \* "config", "loaded" or "found"
  sessionHistory,       \* sessions.get(chatId).history of one chat
  handler,              \* per channel message: where _handleMessage is and its locals
  saved,                \* the configuration in config.json
  channels,             \* ChannelManager.channels: channel id -> instance, 0 for none
  inst,                 \* the QQChannel instances created so far, replaced ones included
  used,                 \* the model the latest conversation was given (history variable)
  up                    \* the process is running

exchangeVars ==
  << pc, req, subAgentTools, history, turn, toolCalls, toolResults, inflight,
     events, conversationSessions, llmCalls, llmFailed, lastToken, varied,
     skills, upstream, probed, eventTurn, streamed >>

adapterVars ==
  << format, sentBlocks, stream, pos, parserPc, content, currentText, currentToolUse,
     textBuffer, toolCallBuffers, finished, emitted >>

wireVars == << messages, bodyMessages, msgPos >>

callerVars == << closedAt, log >>

registryVars == << saConfig, registry, found, regPc >>

chatVars == << sessionHistory, handler >>

channelVars == << saved, channels, inst, used, up >>

managerVars == << registryVars, chatVars, channelVars >>

notRegistry == << exchangeVars, adapterVars, wireVars, callerVars, chatVars, channelVars >>
notChat == << exchangeVars, adapterVars, wireVars, callerVars, registryVars, channelVars >>
notChannels == << exchangeVars, adapterVars, wireVars, callerVars, registryVars, chatVars >>

vars == << exchangeVars, adapterVars, wireVars, callerVars, managerVars >>

NoRequest == [message |-> "", conversationId |-> Undefined, history |-> <<>>]

ConversationKeys == {"c1", "default", "__proto__"}
CollaboratorIds == {subAgents[i].id : i \in 1..Len(subAgents)}

\* the locals of an adapter call when it starts to read the stream
ParserStart ==
  /\ pos = 1
  /\ content = <<>>
  /\ currentText = ""
  /\ currentToolUse = NoToolUse
  /\ textBuffer = ""
  /\ toolCallBuffers = EmptyObject
  /\ finished = FALSE
  /\ emitted = <<>>

InitExchanges ==
  /\ pc = [e \in Exchanges |-> "idle"]
  /\ req = [e \in Exchanges |-> NoRequest]
  /\ subAgentTools = [e \in Exchanges |-> <<>>]
  /\ history = [e \in Exchanges |-> <<>>]
  /\ turn = [e \in Exchanges |-> 0]
  /\ toolCalls = [e \in Exchanges |-> <<>>]
  /\ toolResults = [e \in Exchanges |-> <<>>]
  /\ inflight = [e \in Exchanges |-> {}]
  /\ events = [e \in Exchanges |-> <<>>]
  /\ conversationSessions = EmptyObject
  /\ llmCalls = [e \in Exchanges |-> 0]
  /\ llmFailed = [e \in Exchanges |-> 0]
  /\ lastToken = [k \in ConversationKeys \X CollaboratorIds |-> Undefined]
  /\ varied = 0
  /\ skills = [e \in Exchanges |-> DefaultSkills]
  /\ upstream = [e \in Exchanges |-> EmptyObject]
  /\ probed = [e \in Exchanges |-> [i \in 1..Len(subAgents) |-> FALSE]]
  /\ eventTurn = [e \in Exchanges |-> <<>>]
  /\ streamed = [e \in Exchanges |-> <<>>]
  /\ closedAt = [e \in Exchanges |-> {}]
  /\ log = <<>>

\* no request body is being built
NoWire == messages = <<>> /\ bodyMessages = <<>> /\ msgPos = 0

\* no registry is being loaded outside the exchanges
NoFind == [asked |-> 0, entry |-> 0]
NoRegistry == saConfig = <<>> /\ registry = <<>> /\ found = NoFind /\ regPc = "found"

\* the channel messages one chat receives while the model follows it
MaxMessages == 2
Messages == 1..MaxMessages

\* the tool rounds of one runChat call of a channel message
MaxRounds == 1

\* _handleMessage before it is called: its locals have no value yet
IdleHandler ==
  [pc |-> "idle", history |-> <<>>, given |-> <<>>, left |-> <<>>,
   fullText |-> <<>>, rounds |-> 0, arrived |-> <<>>]

\* no channel message is being handled
NoChat == sessionHistory = <<>> /\ handler = [m \in Messages |-> IdleHandler]

\* the value of `model` when a configuration has no model
NoModel == [provider |-> "null", isDefault |-> FALSE]

\* the channel ids of the configurations
ChannelIds == {"k"}

\* readConfig() without a file
EmptyConfig == [models |-> <<>>, channels |-> <<>>]

\* no channel is configured or managed
NoChannels ==
  /\ saved = EmptyConfig
  /\ channels = [id \in ChannelIds |-> 0]
  /\ inst = <<>>
  /\ used = NoModel
  /\ up = TRUE

NoManager == NoRegistry /\ NoChat /\ NoChannels

\* the exchanges are followed at the level of whole model answers: no
\* stream is being read
Init ==
  /\ InitExchanges
  /\ format = "none" /\ sentBlocks = <<>> /\ stream = <<>> /\ parserPc = "returned"
  /\ ParserStart
  /\ NoWire
  /\ NoManager

\* one adapter call on a response stream of either format
InitAdapter ==
  /\ InitExchanges
  /\ \/ /\ format = "anthropic"
        /\ sentBlocks \in SeqsUpTo(StreamBlocks, MaxBlocks)
        /\ WellFormed(sentBlocks)
        /\ stream = BlocksLines(sentBlocks)
     \/ /\ format = "openai"
        /\ sentBlocks = <<>>
        /\ \E body \in SeqsUpTo(ChunkLines, MaxChunks) : \E ending \in StreamEndings :
             stream = body \o ending
  /\ parserPc = "loop"
  /\ ParserStart
  /\ NoWire
  /\ NoManager

Cid(e) == ConversationKey(req[e].conversationId)

\* ------------------------------------------------------------------------
\* Actions
\* ------------------------------------------------------------------------

\* router.post('/chat') up to "await loadSubAgentTools": validation, SSE
\* headers.  A request without a message is answered 400 and opens no stream.
Accept(e, body) ==
  /\ pc[e] = "idle"
  /\ \A d \in Exchanges : d < e => pc[d] # "idle"
  /\ IF ~Truthy(body.message) \/ getDefaultModel.provider = "null"
     THEN pc' = [pc EXCEPT ![e] = "rejected"] /\ UNCHANGED req
     ELSE pc' = [pc EXCEPT ![e] = "probing"] /\ req' = [req EXCEPT ![e] = body]
  /\ UNCHANGED << subAgentTools, history, turn, toolCalls, toolResults, inflight,
                  events, conversationSessions, llmCalls, llmFailed, lastToken, varied,
                  skills, upstream, probed, streamed >>

\* the probes have returned: the registry is built, the session object of
\* the conversation is created if missing, runChat copies the messages and
\* makes its first model call.  skillsArg is the last argument of runChat,
\* which the route leaves to its default.
LoadTools(e, probeOk, skillsArg) ==
  /\ pc[e] = "probing"
  /\ subAgentTools' = [subAgentTools EXCEPT ![e] = loadSubAgentTools(subAgents, probeOk, 1)]
  /\ probed' = [probed EXCEPT ![e] = probeOk]
  /\ skills' = [skills EXCEPT ![e] = skillsArg]
  /\ upstream' = [upstream EXCEPT ![e] =
                    RequestBody(buildSystemPrompt(EnabledSkills(skillsArg)),
                                ToolNames(loadSubAgentTools(subAgents, probeOk, 1),
                                          EnabledSkills(skillsArg)))]
  /\ conversationSessions' =
       IF Cid(e) \in DOMAIN conversationSessions THEN conversationSessions
       ELSE Store(conversationSessions, Cid(e), EmptyObject)
  /\ history' = [history EXCEPT ![e] =
                   Append(req[e].history, TextMessage("user", req[e].message))]
  /\ turn' = [turn EXCEPT ![e] = 0]
  /\ llmCalls' = [llmCalls EXCEPT ![e] = 1]
  /\ pc' = [pc EXCEPT ![e] = "awaitLLM"]
  /\ UNCHANGED << req, toolCalls, toolResults, inflight, events, llmFailed, lastToken, varied,
                  streamed >>

\* (variant: a failed model call is tried again)
LLMFailRetry(e) ==
  /\ pc[e] = "awaitLLM"
  /\ llmFailed[e] < 1
  /\ llmFailed' = [llmFailed EXCEPT ![e] = @ + 1]
  /\ llmCalls' = [llmCalls EXCEPT ![e] = @ + 1]
  /\ UNCHANGED << pc, req, subAgentTools, history, turn, toolCalls, toolResults, inflight,
                  events, conversationSessions, lastToken, varied, skills, upstream, probed,
                  streamed >>

\* the model call fails (non-success response, so before any delta):
\* runChat throws, the route sends the error event and ends the stream
LLMFail(e) ==
  /\ pc[e] = "awaitLLM"
  /\ streamed[e] = <<>>
  /\ events' = [events EXCEPT ![e] = SendError(@, UpstreamError(getDefaultModel))]
  /\ llmFailed' = [llmFailed EXCEPT ![e] = @ + 1]
  /\ pc' = [pc EXCEPT ![e] = "ended"]
  /\ UNCHANGED << req, subAgentTools, history, turn, toolCalls, toolResults, inflight,
                  conversationSessions, llmCalls, lastToken, varied, skills, upstream, probed,
                  streamed >>

\* the next text delta of the answer resp arrives: "for await" hands the
\* chunk to the adapter, onEvent('text') writes the event, and the read of
\* the next chunk returns to the event loop
LLMText(e, resp) ==
  /\ pc[e] = "awaitLLM"
  /\ Len(streamed[e]) < Len(resp.fragments)
  /\ streamed[e] = SubSeq(resp.fragments, 1, Len(streamed[e]))
  /\ streamed' = [streamed EXCEPT ![e] = Append(@, resp.fragments[Len(@) + 1])]
  /\ events' = [events EXCEPT ![e] = Append(@, TextEvent(resp.fragments[Len(streamed[e]) + 1]))]
  /\ UNCHANGED << pc, req, subAgentTools, history, turn, toolCalls, toolResults, inflight,
                  conversationSessions, llmCalls, llmFailed, lastToken, varied, skills,
                  upstream, probed >>

\* the message of a read of the response body that fails
StreamError == "socket hang up"

\* the body of the response breaks while it is read, after any number of
\* deltas: the adapter throws, runChat throws, the route sends the error
\* event and ends the stream
LLMStreamFail(e) ==
  /\ pc[e] = "awaitLLM"
  /\ events' = [events EXCEPT ![e] = SendError(@, StreamError)]
  /\ llmFailed' = [llmFailed EXCEPT ![e] = @ + 1]
  /\ streamed' = [streamed EXCEPT ![e] = <<>>]
  /\ pc' = [pc EXCEPT ![e] = "ended"]
  /\ UNCHANGED << req, subAgentTools, history, turn, toolCalls, toolResults, inflight,
                  conversationSessions, llmCalls, lastToken, varied, skills, upstream, probed >>

\* The loop from request i of the current turn up to the next await or to
\* the end of the exchange; hist, evs, results and sessions are the values
\* the step has built so far.
Resume(e, hist, tcs, i, results, evs, sessions) ==
  LET d == Dispatch(subAgentTools[e], EnabledSkills(skills[e]),
                    PrototypeChain(conversationSessions, Cid(e), sessions),
                    turn[e], tcs, i, results, evs)
  IN
  /\ conversationSessions' = [conversationSessions EXCEPT ![Cid(e)] = sessions]
  /\ toolCalls' = [toolCalls EXCEPT ![e] = tcs]
  /\ toolResults' = [toolResults EXCEPT ![e] = d.results]
  /\ inflight' = [inflight EXCEPT ![e] = d.started]
  /\ CASE d.status = "await" ->
            /\ pc' = [pc EXCEPT ![e] = "inCall"]
            /\ history' = [history EXCEPT ![e] = hist]
            /\ events' = [events EXCEPT ![e] = d.events]
            /\ UNCHANGED << turn, llmCalls >>
       [] d.status = "throw" ->
            /\ pc' = [pc EXCEPT ![e] = "ended"]
            /\ history' = [history EXCEPT ![e] = hist]
            /\ events' = [events EXCEPT ![e] = SendError(d.events, d.error)]
            /\ UNCHANGED << turn, llmCalls >>
       [] d.status = "complete" ->
            /\ history' = [history EXCEPT ![e] = Append(hist, BlockMessage("user", d.results))]
            /\ turn' = [turn EXCEPT ![e] = @ + 1]
            /\ IF TurnGuard(turn[e] + 1)
               THEN /\ pc' = [pc EXCEPT ![e] = "awaitLLM"]
                    /\ llmCalls' = [llmCalls EXCEPT ![e] = @ + 1]
                    /\ events' = [events EXCEPT ![e] = d.events]
               ELSE /\ pc' = [pc EXCEPT ![e] = "ended"]
                    /\ events' = [events EXCEPT ![e] = SendDone(d.events)]
                    /\ UNCHANGED llmCalls

\* the answers the model may give next: the tool requests of varied answers
\* are counted against a budget, and the unknown tool is asked for only in
\* runs without varied answers
Affordable(resp, budget) ==
  /\ Counted(resp) => varied + Cost(resp) <= budget
  /\ resp = UnknownToolResponse => varied = 0

\* (variant: the loop does not break on an answer without tool requests)
LLMRespondNoBreak(e, resp) ==
  /\ pc[e] = "awaitLLM"
  /\ streamed[e] = resp.fragments
  /\ streamed' = [streamed EXCEPT ![e] = <<>>]
  /\ varied' = IF Counted(resp) THEN varied + Cost(resp) ELSE varied
  /\ Resume(e, Append(history[e], BlockMessage("assistant", resp.content)),
            FilterType(resp.content, "tool_use"), 1, <<>>,
            events[e], conversationSessions[Cid(e)])
  /\ UNCHANGED << req, subAgentTools, llmFailed, lastToken, skills, upstream, probed >>

\* the stream of the answer resp ends and the model call returns: its text
\* deltas have all been written, the assistant message is appended; without
\* tool_use the loop breaks and the route sends done
LLMRespond(e, resp) ==
  /\ pc[e] = "awaitLLM"
  /\ streamed[e] = resp.fragments
  /\ streamed' = [streamed EXCEPT ![e] = <<>>]
  /\ varied' = IF Counted(resp) THEN varied + Cost(resp) ELSE varied
  /\ LET evs == events[e]
         hist == Append(history[e], BlockMessage("assistant", resp.content))
         tcs == FilterType(resp.content, "tool_use")
     IN IF tcs = <<>>
        THEN /\ pc' = [pc EXCEPT ![e] = "ended"]
             /\ history' = [history EXCEPT ![e] = hist]
             /\ events' = [events EXCEPT ![e] = SendDone(evs)]
             /\ toolCalls' = [toolCalls EXCEPT ![e] = tcs]
             /\ toolResults' = [toolResults EXCEPT ![e] = <<>>]
             /\ UNCHANGED << inflight, conversationSessions, turn, llmCalls >>
        ELSE Resume(e, hist, tcs, 1, <<>>, evs, conversationSessions[Cid(e)])
  /\ UNCHANGED << req, subAgentTools, llmFailed, lastToken, skills, upstream, probed >>

\* the awaited collaborator call returns or fails: the token is stored, the
\* tool_result event and block are produced, the loop goes on
CallReturn(e, call, outcome) ==
  /\ pc[e] = "inCall"
  /\ call \in inflight[e]
  /\ LET o == CallOutcome(conversationSessions[Cid(e)], call, toolCalls[e][call.idx], outcome)
     IN Resume(e, history[e], toolCalls[e], call.idx + 1,
               Append(toolResults[e], o.result), Append(events[e], o.event), o.sessions)
  /\ lastToken' = IF outcome.ok
                  THEN [lastToken EXCEPT ![<<Cid(e), call.subAgentId>>] = outcome.session_id]
                  ELSE lastToken
  /\ UNCHANGED << req, subAgentTools, llmFailed, varied, skills, upstream, probed, streamed >>

\* the events a step writes belong to the turn the loop is in
StampEvents ==
  eventTurn' = [d \in Exchanges |->
                  eventTurn[d] \o [i \in 1..(Len(events'[d]) - Len(events[d])) |-> turn[d]]]

\* the steps of exchange e, its inputs drawn from the given sets
ExchangeStep(e, bodies, probes, skillArgs, responses, outcomes) ==
  /\ \/ \E body \in bodies : Accept(e, body)
     \/ \E probeOk \in probes : \E skillsArg \in skillArgs : LoadTools(e, probeOk, skillsArg)
     \/ LLMFail(e)
     \/ LLMStreamFail(e)
     \/ \E resp \in responses : Affordable(resp, MaxRequests) /\ LLMText(e, resp)
     \/ \E resp \in responses : Affordable(resp, MaxRequests) /\ LLMRespond(e, resp)
     \/ \E call \in inflight[e] : \E outcome \in outcomes : CallReturn(e, call, outcome)
  /\ StampEvents
  /\ UNCHANGED << adapterVars, wireVars, callerVars, managerVars >>

\* One exchange, every request body and registry, the model free to use the
\* whole turn budget.
Responses == PlainResponses \cup VariedResponses

Next ==
  ExchangeStep(1, RequestBodies, ProbeOutcomes, {DefaultSkills},
               Responses, CollaboratorOutcomes)

Spec == Init /\ [][Next]_vars

\* The same exchange when every outbound call comes back: the probes, the
\* model call and a delegation each end, fail or time out, so a step that
\* completes the pending await is eventually taken.  The arrival of the
\* request itself is not forced.
Returning ==
  /\ pc[1] \in {"probing", "awaitLLM", "inCall"}
  /\ Next

SpecLive == Init /\ [][Next]_vars /\ WF_vars(Returning)

\* Several exchanges that share the session state and interleave at their
\* awaits; the model's answers are text or varied, so an exchange has at most
\* MaxRequests + 1 turns.
SharedBodies == {b \in RequestBodies : b.history = <<>> /\ b.message # ""}
SharedProbes == {f \in ProbeOutcomes : \A i \in 1..Len(subAgents) : subAgents[i].enabled => f[i]}

SharedResponses ==
  {TextResponse} \cup
  { r \in VariedResponses :
      \A i \in 1..Len(r.content) :
        r.content[i].type = "tool_use" =>
          r.content[i].name \in {NameA, NameB} /\ r.content[i].input.kind = "object" }

SharedOutcomes ==
  {o \in CollaboratorOutcomes :
     IF o.ok THEN o.session_id # "s2" ELSE o.error = "SubAgent error 500: boom"}

NextShared ==
  \E e \in Exchanges :
    ExchangeStep(e, SharedBodies, SharedProbes, {DefaultSkills}, SharedResponses,
                 SharedOutcomes)

SpecShared == Init /\ [][NextShared]_vars

\* runChat called with a skills argument, by a caller built like the chat
\* route: the model asks for bundles by name, also for bundles that are
\* disabled or unknown.
SkillArgs ==
  { <<>>, <<SkillPdf>>, <<SkillCsv>>, <<SkillCsv, SkillPdf>>, <<SkillPdf, SkillCsvOn>> }

SkillResponses ==
  {TextResponse} \cup
  { [fragments |-> <<>>, content |-> <<ToolUse("tu1", ReadSkillName, input)>>] :
      input \in {SkillInput("pdf"), SkillInput("csv"), SkillInput("PDF"), EmptyInput, NullInput} }
  \cup
  { [fragments |-> <<"one ", "moment">>,
     content |-> <<TextBlock("one moment"), ToolUse("tu1", ReadSkillName, SkillInput("csv")),
                   ToolUse("tu2", NameA, ObjectInput("go"))>>] }

NextSkills ==
  ExchangeStep(1, SharedBodies, ProbeOutcomes, SkillArgs, SkillResponses, SharedOutcomes)

SpecSkills == Init /\ [][NextSkills]_vars

\* ------------------------------------------------------------------------
\* Two callers: concurrent exchanges, and callers that go away
\* ------------------------------------------------------------------------

\* (variant: the route ends the stream and drops the pending call when the
\* caller goes away)
DisconnectAborts(e) ==
  /\ pc[e] \in {"probing", "awaitLLM", "inCall"}
  /\ closedAt[e] = {}
  /\ closedAt' = [closedAt EXCEPT ![e] = {Len(events[e])}]
  /\ pc' = [pc EXCEPT ![e] = "ended"]
  /\ inflight' = [inflight EXCEPT ![e] = {}]
  /\ UNCHANGED << req, subAgentTools, history, turn, toolCalls, toolResults, events,
                  conversationSessions, llmCalls, llmFailed, lastToken, varied, skills,
                  upstream, probed, eventTurn, streamed, log, adapterVars, wireVars,
                  managerVars >>

\* the caller of exchange e disconnects while the route awaits the probes,
\* the model or a collaborator: the route registers no close handler, and
\* what send writes from then on has no destination
Disconnect(e) ==
  /\ pc[e] \in {"probing", "awaitLLM", "inCall"}
  /\ closedAt[e] = {}
  /\ closedAt' = [closedAt EXCEPT ![e] = {Len(events[e])}]
  /\ UNCHANGED << exchangeVars, log, adapterVars, wireVars, managerVars >>

\* the entries of the log: a delegation call of exchange e starts with the
\* token it sends, or returns with the token of the reply
StartEntry(e, call) ==
  [ kind |-> "start", exchange |-> e, key |-> Cid(e), id |-> call.subAgentId,
    ok |-> TRUE, token |-> call.body.session_id ]
ReturnEntry(e, call, outcome) ==
  [ kind |-> "return", exchange |-> e, key |-> Cid(e), id |-> call.subAgentId,
    ok |-> outcome.ok, token |-> IF outcome.ok THEN outcome.session_id ELSE Undefined ]

\* the calls a step of exchange e started
Starts(e) ==
  LET new == inflight'[e] \ inflight[e] IN
  IF new = {} THEN <<>> ELSE <<StartEntry(e, CHOOSE call \in new : TRUE)>>

\* the answers of the model and of the collaborators in these runs: text or
\* one delegation; a reply with a token, or a failure
CallerResponses == {r \in SharedResponses : Cost(r) <= 1}
CallerOutcomes ==
  {o \in CollaboratorOutcomes :
     IF o.ok THEN Truthy(o.session_id) ELSE o.error = "SubAgent error 500: boom"}

\* the steps of exchange e, logged: the caller names a conversation of ids,
\* all collaborators answer the probes, the model answers with text or asks
\* for one delegation, up to budget delegations in a run
LoggedStep(e, ids, budget) ==
  /\ \/ /\ \E id \in ids :
              Accept(e, [message |-> "2+2?", conversationId |-> id, history |-> <<>>])
        /\ log' = log
     \/ /\ \E probeOk \in SharedProbes : LoadTools(e, probeOk, DefaultSkills)
        /\ log' = log
     \/ /\ \E resp \in CallerResponses :
              Affordable(resp, budget) /\ LLMText(e, resp)
        /\ log' = log
     \/ /\ \E resp \in CallerResponses :
              Affordable(resp, budget) /\ LLMRespond(e, resp)
        /\ log' = log \o Starts(e)
     \/ \E call \in inflight[e] :
          \E outcome \in CallerOutcomes :
            /\ CallReturn(e, call, outcome)
            /\ log' = log \o <<ReturnEntry(e, call, outcome)>> \o Starts(e)
  /\ StampEvents
  /\ UNCHANGED << closedAt, adapterVars, wireVars, managerVars >>

\* Two exchanges that interleave at their awaits, on the same conversation
\* or on two; the caller of the first one may go away.
FirstIds == {"c1"}
SecondIds == {"c1", "__proto__"}

NextCallers ==
  \/ LoggedStep(1, FirstIds, MaxRequests + 1)
  \/ LoggedStep(2, SecondIds, MaxRequests + 1)
  \/ Disconnect(1)

SpecCallers == Init /\ [][NextCallers]_vars

\* ------------------------------------------------------------------------
\* Adapter actions: one line of the stream per step
\* ------------------------------------------------------------------------

\* (variant: a fragment of the input payload replaces the ones before it)
anthropicEventLastDelta(st, event) ==
  CASE event.type = "content_block_start" ->
         IF event.content_block.type = "tool_use"
         THEN [st EXCEPT !.currentToolUse =
                 [type |-> "tool_use", id |-> event.content_block.id,
                  name |-> event.content_block.name, inputRaw |-> ""]]
         ELSE IF event.content_block.type = "text"
         THEN [st EXCEPT !.currentText = ""]
         ELSE st
    [] event.type = "content_block_delta" ->
         IF event.delta.type = "text_delta"
         THEN [st EXCEPT !.currentText = @ \o event.delta.text,
                         !.emitted = Append(@, TextEvent(event.delta.text))]
         ELSE IF event.delta.type = "input_json_delta" /\ st.currentToolUse # NoToolUse
         THEN [st EXCEPT !.currentToolUse.inputRaw = event.delta.partial_json]
         ELSE st
    [] event.type = "content_block_stop" ->
         IF st.currentToolUse # NoToolUse
         THEN LET parsed == ParseInput(st.currentToolUse.inputRaw) IN
              IF parsed.threw THEN [st EXCEPT !.threw = TRUE]
              ELSE [st EXCEPT !.content = Append(@, ToolUse(st.currentToolUse.id,
                                                            st.currentToolUse.name,
                                                            parsed.input)),
                              !.currentToolUse = NoToolUse]
         ELSE IF st.currentText # ""
         THEN [st EXCEPT !.content = Append(@, TextBlock(st.currentText)),
                         !.currentText = ""]
         ELSE st
    [] OTHER -> st

\* (variant: the text of a block is passed to onEvent when the block stops)
anthropicEventFlushAtStop(st, event) ==
  CASE event.type = "content_block_start" ->
         IF event.content_block.type = "tool_use"
         THEN [st EXCEPT !.currentToolUse =
                 [type |-> "tool_use", id |-> event.content_block.id,
                  name |-> event.content_block.name, inputRaw |-> ""]]
         ELSE IF event.content_block.type = "text"
         THEN [st EXCEPT !.currentText = ""]
         ELSE st
    [] event.type = "content_block_delta" ->
         IF event.delta.type = "text_delta"
         THEN [st EXCEPT !.currentText = @ \o event.delta.text]
         ELSE IF event.delta.type = "input_json_delta" /\ st.currentToolUse # NoToolUse
         THEN [st EXCEPT !.currentToolUse.inputRaw = @ \o event.delta.partial_json]
         ELSE st
    [] event.type = "content_block_stop" ->
         IF st.currentToolUse # NoToolUse
         THEN LET parsed == ParseInput(st.currentToolUse.inputRaw) IN
              IF parsed.threw THEN [st EXCEPT !.threw = TRUE]
              ELSE [st EXCEPT !.content = Append(@, ToolUse(st.currentToolUse.id,
                                                            st.currentToolUse.name,
                                                            parsed.input)),
                              !.currentToolUse = NoToolUse]
         ELSE IF st.currentText # ""
         THEN [st EXCEPT !.content = Append(@, TextBlock(st.currentText)),
                         !.emitted = Append(@, TextEvent(st.currentText)),
                         !.currentText = ""]
         ELSE st
    [] OTHER -> st

\* parseAnthropicStream: the body of the loop for one event; st holds
\* content, currentText, currentToolUse and emitted
anthropicEvent(st, event) ==
  CASE event.type = "content_block_start" ->
         IF event.content_block.type = "tool_use"
         THEN [st EXCEPT !.currentToolUse =
                 [type |-> "tool_use", id |-> event.content_block.id,
                  name |-> event.content_block.name, inputRaw |-> ""]]
         ELSE IF event.content_block.type = "text"
         THEN [st EXCEPT !.currentText = ""]
         ELSE st
    [] event.type = "content_block_delta" ->
         IF event.delta.type = "text_delta"
         THEN [st EXCEPT !.currentText = @ \o event.delta.text,
                         !.emitted = Append(@, TextEvent(event.delta.text))]
         ELSE IF event.delta.type = "input_json_delta" /\ st.currentToolUse # NoToolUse
         THEN [st EXCEPT !.currentToolUse.inputRaw = @ \o event.delta.partial_json]
         ELSE st
    [] event.type = "content_block_stop" ->
         IF st.currentToolUse # NoToolUse
         THEN LET parsed == ParseInput(st.currentToolUse.inputRaw) IN
              IF parsed.threw THEN [st EXCEPT !.threw = TRUE]
              ELSE [st EXCEPT !.content = Append(@, ToolUse(st.currentToolUse.id,
                                                            st.currentToolUse.name,
                                                            parsed.input)),
                              !.currentToolUse = NoToolUse]
         ELSE IF st.currentText # ""
         THEN [st EXCEPT !.content = Append(@, TextBlock(st.currentText)),
                         !.currentText = ""]
         ELSE st
    [] OTHER -> st

\* (variant: a payload that is not JSON makes the adapter throw)
AnthropicLineStrict ==
  /\ format = "anthropic" /\ parserPc = "loop" /\ pos <= Len(stream)
  /\ pos' = pos + 1
  /\ LET st == [content |-> content, currentText |-> currentText,
                currentToolUse |-> currentToolUse, emitted |-> emitted, threw |-> FALSE]
         nx == IF stream[pos].kind = "event" THEN anthropicEvent(st, stream[pos].event)
               ELSE IF stream[pos].kind = "garbage" THEN [st EXCEPT !.threw = TRUE]
               ELSE st
     IN /\ content' = nx.content
        /\ currentText' = nx.currentText
        /\ currentToolUse' = nx.currentToolUse
        /\ emitted' = nx.emitted
        /\ parserPc' = IF nx.threw THEN "threw" ELSE "loop"
  /\ UNCHANGED << format, sentBlocks, stream, textBuffer, toolCallBuffers, finished, exchangeVars, wireVars, callerVars, managerVars >>

\* parseAnthropicStream reads the next line
AnthropicLine ==
  /\ format = "anthropic" /\ parserPc = "loop" /\ pos <= Len(stream)
  /\ pos' = pos + 1
  /\ LET st == [content |-> content, currentText |-> currentText,
                currentToolUse |-> currentToolUse, emitted |-> emitted, threw |-> FALSE]
         nx == IF stream[pos].kind = "event" THEN anthropicEvent(st, stream[pos].event) ELSE st
     IN /\ content' = nx.content
        /\ currentText' = nx.currentText
        /\ currentToolUse' = nx.currentToolUse
        /\ emitted' = nx.emitted
        /\ parserPc' = IF nx.threw THEN "threw" ELSE "loop"
  /\ UNCHANGED << format, sentBlocks, stream, textBuffer, toolCallBuffers, finished, exchangeVars, wireVars, callerVars, managerVars >>

\* the stream has ended: parseAnthropicStream returns { content }
AnthropicReturn ==
  /\ format = "anthropic" /\ parserPc = "loop" /\ pos > Len(stream)
  /\ parserPc' = "returned"
  /\ UNCHANGED << format, sentBlocks, stream, pos, content, currentText, currentToolUse,
                  textBuffer, toolCallBuffers, finished, emitted, exchangeVars, wireVars, callerVars, managerVars >>

\* (variant: a fragment of the arguments replaces the buffered ones)
RECURSIVE bufferToolCallsOverwrite(_, _)
bufferToolCallsOverwrite(buffers, tcs) ==
  IF tcs = <<>> THEN buffers
  ELSE LET tc == Head(tcs)
           old == IF tc.index \in DOMAIN buffers THEN buffers[tc.index]
                  ELSE [id |-> "", name |-> "", argsRaw |-> ""]
           new == [ id |-> IF Truthy(tc.id) THEN tc.id ELSE old.id,
                    name |-> IF Truthy(tc.name) THEN old.name \o tc.name ELSE old.name,
                    argsRaw |-> IF Truthy(tc.arguments) THEN tc.arguments ELSE old.argsRaw ]
       IN bufferToolCallsOverwrite(Store(buffers, tc.index, new), Tail(tcs))

\* parseOAIStream: the fragments of delta.tool_calls are added to the
\* buffers of their indexes
RECURSIVE bufferToolCalls(_, _)
bufferToolCalls(buffers, tcs) ==
  IF tcs = <<>> THEN buffers
  ELSE LET tc == Head(tcs)
           old == IF tc.index \in DOMAIN buffers THEN buffers[tc.index]
                  ELSE [id |-> "", name |-> "", argsRaw |-> ""]
           new == [ id |-> IF Truthy(tc.id) THEN tc.id ELSE old.id,
                    name |-> IF Truthy(tc.name) THEN old.name \o tc.name ELSE old.name,
                    argsRaw |-> IF Truthy(tc.arguments) THEN old.argsRaw \o tc.arguments
                                ELSE old.argsRaw ]
       IN bufferToolCalls(Store(buffers, tc.index, new), Tail(tcs))

\* parseOAIStream: the body of the loop for one chunk; st holds content,
\* textBuffer, toolCallBuffers, finished and emitted
oaiEvent(st, event) ==
  LET afterText ==
        IF Truthy(event.delta.content)
        THEN [st EXCEPT !.textBuffer = @ \o event.delta.content,
                        !.emitted = Append(@, TextEvent(event.delta.content))]
        ELSE st
      afterDelta ==
        [afterText EXCEPT !.toolCallBuffers = bufferToolCalls(@, event.delta.tool_calls)]
      pushed == PushBuffers(BufferValues(afterDelta.toolCallBuffers,
                                         DOMAIN afterDelta.toolCallBuffers), FALSE)
  IN IF event.finish_reason \in {"stop", "tool_calls"}
     THEN [afterDelta EXCEPT
             !.finished = TRUE,
             !.content = (IF afterDelta.textBuffer # ""
                          THEN Append(@, TextBlock(afterDelta.textBuffer)) ELSE @)
                         \o pushed.blocks,
             !.textBuffer = "",
             !.threw = pushed.threw]
     ELSE afterDelta

\* parseOAIStream reads the next line; [DONE] leaves the loop
OAILine ==
  /\ format = "openai" /\ parserPc = "loop" /\ pos <= Len(stream)
  /\ pos' = pos + 1
  /\ LET st == [content |-> content, textBuffer |-> textBuffer,
                toolCallBuffers |-> toolCallBuffers, finished |-> finished,
                emitted |-> emitted, threw |-> FALSE]
         nx == CASE stream[pos].kind = "done" -> [st EXCEPT !.finished = TRUE]
                 [] stream[pos].kind = "event" -> oaiEvent(st, stream[pos].event)
                 [] OTHER -> st
     IN /\ content' = nx.content
        /\ textBuffer' = nx.textBuffer
        /\ toolCallBuffers' = nx.toolCallBuffers
        /\ finished' = nx.finished
        /\ emitted' = nx.emitted
        /\ parserPc' = IF nx.threw THEN "threw"
                       ELSE IF stream[pos].kind = "done" THEN "after" ELSE "loop"
  /\ UNCHANGED << format, sentBlocks, stream, currentText, currentToolUse, exchangeVars, wireVars, callerVars, managerVars >>

\* after the loop: what is still buffered is flushed when no terminal
\* signal was seen, or when one was seen but nothing was pushed; then
\* parseOAIStream returns { content }
OAIReturn ==
  /\ format = "openai"
  /\ parserPc = "after" \/ (parserPc = "loop" /\ pos > Len(stream))
  /\ LET flush == ~finished \/ (Len(content) = 0
                                  /\ (textBuffer # "" \/ DOMAIN toolCallBuffers # {}))
         pushed == PushBuffers(BufferValues(toolCallBuffers, DOMAIN toolCallBuffers), TRUE)
     IN IF flush
        THEN /\ content' = (IF textBuffer # "" THEN Append(content, TextBlock(textBuffer))
                            ELSE content) \o pushed.blocks
             /\ parserPc' = IF pushed.threw THEN "threw" ELSE "returned"
        ELSE /\ content' = content
             /\ parserPc' = "returned"
  /\ UNCHANGED << format, sentBlocks, stream, pos, currentText, currentToolUse, textBuffer,
                  toolCallBuffers, finished, emitted, exchangeVars, wireVars, callerVars, managerVars >>

NextAdapter == AnthropicLine \/ AnthropicReturn \/ OAILine \/ OAIReturn

SpecAdapter == InitAdapter /\ [][NextAdapter]_vars

\* ------------------------------------------------------------------------
\* Request bodies: the history in the shape of each format
\* ------------------------------------------------------------------------

\* the value null
Null == "<null>"

\* JSON.stringify of the input of a tool request
JSONStringify(input) ==
  CASE input.kind = "null" -> "null"
    [] "message" \in DOMAIN input -> "{\"message\":\"" \o input.message \o "\"}"
    [] "skill_name" \in DOMAIN input -> "{\"skill_name\":\"" \o input.skill_name \o "\"}"
    [] "a" \in DOMAIN input -> "{\"a\":1}"
    [] OTHER -> "{}"

\* content.filter(b => b.type === 'text').map(b => b.text).join('')
RECURSIVE textParts(_)
textParts(blocks) ==
  IF blocks = <<>> THEN ""
  ELSE (IF Head(blocks).type = "text" THEN Head(blocks).text ELSE "")
       \o textParts(Tail(blocks))

\* convertMessagesToOAI, assistant branch: the text joined (null without
\* text), the tool requests as tool_calls when there are any
oaiMsg(blocks) ==
  LET tus == FilterType(blocks, "tool_use")
      calls == [k \in 1..Len(tus) |->
                      [ id |-> tus[k].id, type |-> "function",
                        function |-> [ name |-> tus[k].name,
                                       arguments |-> JSONStringify(tus[k].input) ] ]]
      base == [ role |-> "assistant",
                content |-> IF textParts(blocks) # "" THEN textParts(blocks) ELSE Null ]
  IN IF Len(calls) > 0 THEN base @@ [tool_calls |-> calls] ELSE base

\* (variant: the results of one message are sent as a single tool message)
toolMessagesMerged(results) ==
  << [ role |-> "tool", tool_call_id |-> results[1].tool_use_id,
       content |-> results[1].content ] >>

\* convertMessagesToOAI, user branch: one role 'tool' message per result
toolMessages(results) ==
  [k \in 1..Len(results) |->
     [ role |-> "tool", tool_call_id |-> results[k].tool_use_id,
       content |-> results[k].content ]]

\* convertMessagesToOAI: the messages pushed for the messages of a history
RECURSIVE convertMessagesToOAI(_)
convertMessagesToOAI(msgs) ==
  IF msgs = <<>> THEN <<>>
  ELSE LET msg == Head(msgs) IN
       ( IF "content" \notin DOMAIN msg
         THEN << [role |-> msg.role, content |-> msg.text] >>
         ELSE IF msg.role = "assistant"
         THEN << oaiMsg(msg.content) >>
         ELSE IF msg.role = "user" /\ Len(FilterType(msg.content, "tool_result")) > 0
         THEN toolMessages(FilterType(msg.content, "tool_result"))
         ELSE << [role |-> msg.role, content |-> textParts(msg.content)] >> )
       \o convertMessagesToOAI(Tail(msgs))

\* callAnthropic: messages.map(m => ({ role, content })), a string content
\* wrapped in one text block
anthropicMessages(msgs) ==
  [i \in 1..Len(msgs) |->
     [ role |-> msgs[i].role,
       content |-> IF "content" \in DOMAIN msgs[i] THEN msgs[i].content
                   ELSE <<TextBlock(msgs[i].text)>> ]]

\* histories as runChat holds them at a model call: the caller's messages,
\* then turns (an assistant message with tool requests and the user message
\* with their results), then possibly an assistant message without request
WireHistories ==
  LET turns ==
        { <<>>,
          << BlockMessage("assistant", <<TextBlock("let me ask"),
                                          ToolUse("tu1", NameA, ObjectInput("go"))>>),
             BlockMessage("user", <<ToolResult("tu1", "42")>>) >>,
          << BlockMessage("assistant", <<ToolUse("tu1", NameA, EmptyInput),
                                          ToolUse("tu2", NameB, ObjectInput("go"))>>),
             BlockMessage("user", <<ToolResult("tu1", CallFailedPrefix \o "boom"),
                                    ToolResult("tu2", "42")>>) >>,
          << BlockMessage("assistant", <<TextBlock("a"), ToolUse("tu1", NameX, NullInput),
                                          TextBlock("b")>>),
             BlockMessage("user", <<ToolResult("tu1", ToolNotFound)>>) >> }
      lasts ==
        { <<>>, << BlockMessage("assistant", <<TextBlock("2+2 "), TextBlock("is 4")>>) >>,
          << BlockMessage("assistant", <<>>) >> }
  IN { Append(pre, TextMessage("user", "2+2?")) \o t1 \o t2 \o last :
         pre \in HistoryInputs, t1 \in turns, t2 \in turns, last \in lasts }

\* one model call of either provider is about to build its request body
InitWire ==
  /\ InitExchanges
  /\ format \in {"anthropic", "openai"}
  /\ sentBlocks = <<>> /\ stream = <<>> /\ parserPc = "returned"
  /\ ParserStart
  /\ messages \in WireHistories
  /\ bodyMessages = <<>>
  /\ msgPos = 0
  /\ NoManager

\* callAnthropic builds body.messages
AnthropicBody ==
  /\ format = "anthropic" /\ msgPos = 0 /\ messages # <<>>
  /\ bodyMessages' = anthropicMessages(messages)
  /\ msgPos' = Len(messages)
  /\ UNCHANGED << messages, exchangeVars, adapterVars, callerVars, managerVars >>

\* convertMessagesToOAI: one iteration of "for (const msg of messages)"
OAIConvert ==
  /\ format = "openai" /\ msgPos < Len(messages)
  /\ bodyMessages' = bodyMessages \o convertMessagesToOAI(<<messages[msgPos + 1]>>)
  /\ msgPos' = msgPos + 1
  /\ UNCHANGED << messages, exchangeVars, adapterVars, callerVars, managerVars >>

NextWire == AnthropicBody \/ OAIConvert

SpecWire == InitWire /\ [][NextWire]_vars

\* ------------------------------------------------------------------------
\* The registry of one exchange, for configurations of any ids
\* ------------------------------------------------------------------------

\* ids as PUT /settings stores them: they are not checked
IdDash == <<"a", "-", "b">>
IdUnderscore == <<"a", "_", "b">>

RegistryIds == {IdDash, IdUnderscore, IdC}
RegistrySlots == 1..Cardinality(RegistryIds)

RegistryAgents ==
  { [id |-> i, name |-> "Agent", enabled |-> b] : i \in RegistryIds, b \in BOOLEAN }

\* config.subAgents: collaborators with different ids
RegistryConfigs ==
  { c \in SeqsUpTo(RegistryAgents, Cardinality(RegistryIds)) :
      \A i, j \in 1..Len(c) : i # j => c[i].id # c[j].id }

InitRegistry ==
  /\ InitExchanges
  /\ format = "none" /\ sentBlocks = <<>> /\ stream = <<>> /\ parserPc = "returned"
  /\ ParserStart
  /\ NoWire
  /\ NoChat
  /\ NoChannels
  /\ saConfig \in RegistryConfigs
  /\ registry = <<>>
  /\ found = NoFind
  /\ regPc = "config"

\* loadSubAgentTools(config.subAgents) when every probe succeeds
LoadRegistry ==
  /\ regPc = "config"
  /\ registry' = loadSubAgentTools(saConfig, [i \in 1..Len(saConfig) |-> TRUE], 1)
  /\ regPc' = "loaded"
  /\ UNCHANGED << saConfig, found, notRegistry >>

\* the model names the tool of entry k; runChat looks the name up
\* (subAgentTools.find(e => e.tool.name === tc.name))
FindTool(k) ==
  /\ regPc = "loaded"
  /\ k \in 1..Len(registry)
  /\ found' = [asked |-> k, entry |-> FindEntry(registry, registry[k].tool.name)]
  /\ regPc' = "found"
  /\ UNCHANGED << saConfig, registry, notRegistry >>

NextRegistry == LoadRegistry \/ \E k \in RegistrySlots : FindTool(k)

SpecRegistry == InitRegistry /\ [][NextRegistry]_vars

\* ------------------------------------------------------------------------
\* ChannelManager._handleMessage: the messages of one chat
\* ------------------------------------------------------------------------

\* session.history.length > 40, session.history.slice(-40)
HISTORY_LIMIT == 40

\* texts are sequences of tokens; the empty text is falsy
UserText(m) == <<"msg", m>>
ReplyText(m) == <<"re", m>>

\* what earlier messages of the chat left in the history
OldEntry(i) == TextMessage(IF i % 2 = 1 THEN "user" ELSE "assistant", <<"old", i>>)
OldHistory(n) == [i \in 1..n |-> OldEntry(i)]
StoredLengths == {0, HISTORY_LIMIT - 1, HISTORY_LIMIT}

\* appConfig.models of the channel that received the message: none, or one
ChatModels == {<<>>, models}

\* appConfig.models?.find(m => m.isDefault) || appConfig.models?.[0]
ChannelModel(ms) ==
  LET marked == {i \in 1..Len(ms) : ms[i].isDefault} IN
  IF marked # {} THEN ms[CHOOSE i \in marked : \A j \in marked : i <= j]
  ELSE IF ms # <<>> THEN ms[1]
  ELSE NoModel

\* Array.prototype.pop
Pop(h) == IF h = <<>> THEN h ELSE SubSeq(h, 1, Len(h) - 1)

\* h.slice(0, n) and h.slice(-n)
SliceFirst(h, n) == IF Len(h) <= n THEN h ELSE SubSeq(h, 1, n)
SliceLast(h, n) == IF Len(h) <= n THEN h ELSE SubSeq(h, Len(h) - n + 1, Len(h))

\* if (session.history.length > 40) session.history = session.history.slice(-40)
LimitOldest(h) == IF Len(h) > HISTORY_LIMIT THEN SliceFirst(h, HISTORY_LIMIT) ELSE h
Limit(h) == IF Len(h) > HISTORY_LIMIT THEN SliceLast(h, HISTORY_LIMIT) ELSE h

\* runChat's history.push(msg): lists.own is runChat's history, lists.callers
\* the list runChat was given
RunChatPushShared(lists, msg) ==
  [own |-> Append(lists.own, msg), callers |-> Append(lists.callers, msg)]
RunChatPush(lists, msg) ==
  [own |-> Append(lists.own, msg), callers |-> lists.callers]

InitChat ==
  /\ InitExchanges
  /\ format = "none" /\ sentBlocks = <<>> /\ stream = <<>> /\ parserPc = "returned"
  /\ ParserStart
  /\ NoWire
  /\ NoRegistry
  /\ NoChannels
  /\ \E n \in StoredLengths : sessionHistory = OldHistory(n)
  /\ handler = [m \in Messages |-> IdleHandler]

\* _handleMessage up to await loadSubAgentTools, or its return when the
\* configuration has no model; the messages are numbered as they arrive
HandleMessage(m, ms) ==
  /\ handler[m].pc = "idle"
  /\ \A o \in 1..(m - 1) : handler[o].pc # "idle"
  /\ handler' = [handler EXCEPT ![m] =
                   IF ChannelModel(ms) = NoModel
                   THEN [@ EXCEPT !.pc = "nomodel"]
                   ELSE [@ EXCEPT !.pc = "loading", !.arrived = sessionHistory]]
  /\ UNCHANGED << sessionHistory, notChat >>

\* the tools are loaded: the user message is pushed and runChat is called,
\* which copies the list and awaits the first model call
CallRunChat(m) ==
  /\ handler[m].pc = "loading"
  /\ LET pushed == Append(sessionHistory, TextMessage("user", UserText(m))) IN
     /\ sessionHistory' = pushed
     /\ handler' = [handler EXCEPT ![m] =
                      [@ EXCEPT !.pc = "calling", !.history = pushed, !.given = pushed]]
  /\ UNCHANGED notChat

\* a model answer with tool requests and no text: runChat pushes it and
\* dispatches
ChatTools(m) ==
  /\ handler[m].pc = "calling"
  /\ handler[m].rounds < MaxRounds
  /\ LET r == RunChatPush([own |-> handler[m].history, callers |-> sessionHistory],
                          BlockMessage("assistant", <<"tool_use">>)) IN
     /\ sessionHistory' = r.callers
     /\ handler' = [handler EXCEPT ![m] =
                      [@ EXCEPT !.pc = "dispatching", !.history = r.own,
                                !.rounds = @ + 1]]
  /\ UNCHANGED notChat

\* the tool calls have returned: runChat pushes their results and calls the
\* model again
ChatToolResults(m) ==
  /\ handler[m].pc = "dispatching"
  /\ LET r == RunChatPush([own |-> handler[m].history, callers |-> sessionHistory],
                          BlockMessage("user", <<"tool_result">>)) IN
     /\ sessionHistory' = r.callers
     /\ handler' = [handler EXCEPT ![m] = [@ EXCEPT !.pc = "calling", !.history = r.own]]
  /\ UNCHANGED notChat

\* a model answer without tool requests: runChat pushes it and returns, and
\* _handleMessage goes on in the same turn of the event loop: it pushes the
\* reply, if there is a text, and limits the history
ChatAnswer(m, text) ==
  /\ handler[m].pc = "calling"
  /\ LET r == RunChatPush([own |-> handler[m].history, callers |-> sessionHistory],
                          BlockMessage("assistant", text))
         fullText == handler[m].fullText \o text IN
     /\ sessionHistory' =
          Limit(IF fullText # <<>>
                THEN Append(r.callers, TextMessage("assistant", fullText))
                ELSE r.callers)
     /\ handler' = [handler EXCEPT ![m] =
                      [@ EXCEPT !.pc = "done", !.history = r.own,
                                !.fullText = fullText, !.left = r.callers]]
  /\ UNCHANGED notChat

\* a model call fails: runChat throws, and the catch block of _handleMessage
\* runs in the same turn of the event loop
ChatThrow(m) ==
  /\ handler[m].pc = "calling"
  /\ sessionHistory' = Pop(sessionHistory)
  /\ handler' = [handler EXCEPT ![m] = [@ EXCEPT !.pc = "failed", !.left = sessionHistory]]
  /\ UNCHANGED notChat

\* the text of one model answer: none, or some
AnswerTexts(m) == {<<>>, ReplyText(m)}

NextChat ==
  \E m \in Messages :
    \/ \E ms \in ChatModels : HandleMessage(m, ms)
    \/ CallRunChat(m)
    \/ ChatTools(m)
    \/ ChatToolResults(m)
    \/ \E text \in AnswerTexts(m) : ChatAnswer(m, text)
    \/ ChatThrow(m)

SpecChat == InitChat /\ [][NextChat]_vars

\* ------------------------------------------------------------------------
\* ChannelManager.sync and the QQChannel instances
\* ------------------------------------------------------------------------

\* the QQChannel instances created while the model follows the manager
MaxInstances == 2

\* const PERMANENT_ERRORS = [4013, 4014]
PERMANENT_ERRORS == {4013, 4014}

\* the close codes of a socket: the permanent ones and an abnormal closure
CloseCodes == PERMANENT_ERRORS \cup {1006}

\* config.models: two models, the second or none marked default
ConfigModel(id, isDefault) == [provider |-> "anthropic", id |-> id, isDefault |-> isDefault]
ModelLists ==
  { << ConfigModel("m1", FALSE), ConfigModel("m2", b) >> : b \in BOOLEAN }

\* an entry of config.channels; appId and appSecret are those of its config
ChannelEntry(type, enabled, appId) ==
  [id |-> "k", type |-> type, enabled |-> enabled, appId |-> appId, appSecret |-> "s"]
ChannelEntries ==
  { ChannelEntry("qq", FALSE, "A"), ChannelEntry("qq", TRUE, "A"),
    ChannelEntry("qq", TRUE, "B"), ChannelEntry("wechat", TRUE, "A") }

\* the bodies of PUT /settings: some models and one channel
Configs == [models : ModelLists, channels : {<<c>> : c \in ChannelEntries}]

\* (config.channels || []).filter(c => c.enabled)
IsEnabled(c) == c.enabled
newChannels(config) == SelectSeq(config.channels, IsEnabled)
newIds(config) == {newChannels(config)[k].id : k \in 1..Len(newChannels(config))}

\* new QQChannel(...) followed by start() up to its first await: the
\* instance is fetching a token; models is the appConfig its onMessage holds.
\* ws is "null" when this.ws is null, else the state of the socket in
\* this.ws: "connecting", "open", "failed" (it emitted 'error' and its
\* 'close' is to come) or "closed"
NewChannel(c, config) ==
  [id |-> c.id, appId |-> c.appId, clientSecret |-> c.appSecret,
   models |-> config.models, stopped |-> FALSE, status |-> "connecting",
   task |-> "token", refreshing |-> FALSE, ws |-> "null",
   tokenRefreshTimer |-> FALSE, reconnectTimer |-> FALSE]

\* the states of a socket that can still emit an event, 'error', 'close'
LiveSocket == {"connecting", "open", "failed"}
CanFail == {"connecting", "open"}
CanClose == {"open", "failed"}

\* QQChannel.stop(): the reconnect timer is not kept and so not cleared.
\* terminate() of a socket that is still connecting aborts the handshake and
\* emits 'error' and 'close' on the next tick, before the event loop takes
\* another event: the 'error' handler sets status 'error' whatever _stopped
\* is, the 'close' handler returns at _stopped.  The 'close' of a terminated
\* open socket comes later and its handler returns at _stopped as well
stop(r) ==
  [r EXCEPT !.stopped = TRUE, !.tokenRefreshTimer = FALSE, !.ws = "null",
            !.status = IF r.ws = "connecting" THEN "error" ELSE "disconnected"]

\* the first loop of sync: the channels that are no longer enabled
StopRemoved(st, config) ==
  LET gone(i) == \E id \in ChannelIds : st.channels[id] = i /\ id \notin newIds(config) IN
  [channels |-> [id \in ChannelIds |->
                   IF id \notin newIds(config) THEN 0 ELSE st.channels[id]],
   inst |-> [i \in 1..Len(st.inst) |->
               IF gone(i) THEN stop(st.inst[i]) ELSE st.inst[i]]]

\* _startChannel
startChannel(st, c, config) ==
  IF c.type # "qq" THEN st
  ELSE [channels |-> [id \in ChannelIds |->
                        IF id = c.id THEN Len(st.inst) + 1 ELSE st.channels[id]],
        inst |-> Append(st.inst, NewChannel(c, config))]

\* the second loop of sync, from entry k of the enabled channels
RECURSIVE StartNew(_, _, _)
StartNew(st, config, k) ==
  IF k > Len(newChannels(config)) THEN st
  ELSE LET c == newChannels(config)[k]
           existing == st.channels[c.id]
           restarted ==
             IF existing = 0 THEN st
             ELSE [channels |-> [id \in ChannelIds |->
                                   IF id = c.id THEN 0 ELSE st.channels[id]],
                   inst |-> [i \in 1..Len(st.inst) |->
                               IF i = existing THEN stop(st.inst[i]) ELSE st.inst[i]]]
       IN IF /\ existing # 0
             /\ st.inst[existing].appId = c.appId
             /\ st.inst[existing].clientSecret = c.appSecret
          THEN StartNew(st, config, k + 1)
          ELSE StartNew(startChannel(restarted, c, config), config, k + 1)

\* ChannelManager.sync(config). Its only await is on the promise of
\* _startChannel, which is settled when it is awaited, and its callers are
\* a request handler and the listen callback: a call runs to its end before
\* the event loop takes the next request, so calls do not interleave
sync(st, config) == StartNew(StopRemoved(st, config), config, 1)

InitChannels ==
  /\ InitExchanges
  /\ format = "none" /\ sentBlocks = <<>> /\ stream = <<>> /\ parserPc = "returned"
  /\ ParserStart
  /\ NoWire
  /\ NoRegistry
  /\ NoChat
  /\ NoChannels

\* PUT /settings: writeConfig(config), then channelManager.sync(config)
SaveSettings(config) ==
  /\ up
  /\ LET st == sync([channels |-> channels, inst |-> inst], config) IN
     /\ Len(st.inst) <= MaxInstances
     /\ channels' = st.channels
     /\ inst' = st.inst
  /\ saved' = config
  /\ UNCHANGED << used, up, notChannels >>

\* a rejected promise nobody handles: the process goes on or ends, as the
\* runtime is set
Unhandled == up' \in BOOLEAN

\* the token request of start() returns: _refreshToken arms its timer and
\* _connect requests the gateway unless the instance is stopped; a failure
\* is caught by start()
TokenReturn(i, ok) ==
  /\ up
  /\ inst[i].task = "token"
  /\ inst' = [inst EXCEPT ![i] =
       IF ok
       THEN [@ EXCEPT !.tokenRefreshTimer = TRUE,
                      !.task = IF inst[i].stopped THEN "none" ELSE "gateway"]
       ELSE [@ EXCEPT !.status = "error", !.task = "none"]]
  /\ UNCHANGED << saved, channels, used, up, notChannels >>

\* the token timer fires: () => !this._stopped && this._refreshToken()
TokenTimer(i) ==
  /\ up
  /\ inst[i].tokenRefreshTimer
  /\ inst' = [inst EXCEPT ![i] =
       [@ EXCEPT !.tokenRefreshTimer = FALSE, !.refreshing = ~inst[i].stopped]]
  /\ UNCHANGED << saved, channels, used, up, notChannels >>

\* the token request of the timer returns; nobody handles its failure
RefreshReturn(i, ok) ==
  /\ up
  /\ inst[i].refreshing
  /\ inst' = [inst EXCEPT ![i] =
       [@ EXCEPT !.refreshing = FALSE, !.tokenRefreshTimer = ok]]
  /\ IF ok THEN UNCHANGED up ELSE Unhandled
  /\ UNCHANGED << saved, channels, used, notChannels >>

\* the gateway request of _connect returns: the socket is created; a
\* failure is caught by start(), and by nobody after a reconnect
GatewayReturn(i, ok) ==
  /\ up
  /\ inst[i].task \in {"gateway", "regateway"}
  /\ inst' = [inst EXCEPT ![i] =
       IF ok THEN [@ EXCEPT !.ws = "connecting", !.task = "none"]
       ELSE IF inst[i].task = "gateway"
            THEN [@ EXCEPT !.status = "error", !.task = "none"]
            ELSE [@ EXCEPT !.task = "none"]]
  /\ IF ~ok /\ inst[i].task = "regateway" THEN Unhandled ELSE UNCHANGED up
  /\ UNCHANGED << saved, channels, used, notChannels >>

\* the 'open' event of the socket: the handshake is done
WsOpen(i) ==
  /\ up
  /\ inst[i].ws = "connecting"
  /\ inst' = [inst EXCEPT ![i] = [@ EXCEPT !.ws = "open"]]
  /\ UNCHANGED << saved, channels, used, up, notChannels >>

\* the READY dispatch arrives on the open socket, once
WsReady(i) ==
  /\ up
  /\ inst[i].ws = "open"
  /\ inst[i].status # "connected"
  /\ inst' = [inst EXCEPT ![i] = [@ EXCEPT !.status = "connected"]]
  /\ UNCHANGED << saved, channels, used, up, notChannels >>

\* the handler of 'close': nothing more when stopped, 'error' on a
\* permanent code, else 'connecting' and the reconnect timer
onClose(r, code) ==
  IF r.stopped THEN [r EXCEPT !.ws = "closed"]
  ELSE IF code \in PERMANENT_ERRORS
       THEN [r EXCEPT !.ws = "closed", !.status = "error"]
       ELSE [r EXCEPT !.ws = "closed", !.status = "connecting",
                      !.reconnectTimer = TRUE]

\* the 'error' event of the socket.  A handshake that fails emits 'error'
\* and then 'close' (code 1006) in one tick; an open socket that fails
\* emits 'error' and closes later
WsError(i) ==
  /\ up
  /\ inst[i].ws \in CanFail
  /\ inst' = [inst EXCEPT ![i] =
       IF inst[i].ws = "connecting"
       THEN onClose([@ EXCEPT !.status = "error"], 1006)
       ELSE [@ EXCEPT !.ws = "failed", !.status = "error"]]
  /\ UNCHANGED << saved, channels, used, up, notChannels >>

\* the 'close' event of a socket that was open
WsClose(i, code) ==
  /\ up
  /\ inst[i].ws \in CanClose
  /\ inst' = [inst EXCEPT ![i] = onClose(@, code)]
  /\ UNCHANGED << saved, channels, used, up, notChannels >>

\* the reconnect timer fires: () => !this._stopped && this._connect()
ReconnectTimer(i) ==
  /\ up
  /\ inst[i].reconnectTimer
  /\ inst' = [inst EXCEPT ![i] =
       [@ EXCEPT !.reconnectTimer = FALSE,
                 !.task = IF inst[i].stopped THEN @ ELSE "regateway"]]
  /\ UNCHANGED << saved, channels, used, up, notChannels >>

\* a message arrives on the socket of a ready instance: onMessage calls
\* _handleMessage with the appConfig the instance was started with
ChannelMessage(i) ==
  /\ up
  /\ inst[i].ws = "open"
  /\ inst[i].status = "connected"
  /\ used' = ChannelModel(inst[i].models)
  /\ UNCHANGED << saved, channels, inst, up, notChannels >>

\* POST /chat: getDefaultModel() reads config.json
WebChat ==
  /\ up
  /\ used' = ChannelModel(saved.models)
  /\ UNCHANGED << saved, channels, inst, up, notChannels >>

Instances == 1..MaxInstances

ChannelStep(i) ==
  /\ i \in 1..Len(inst)
  /\ \/ \E ok \in BOOLEAN : TokenReturn(i, ok)
     \/ TokenTimer(i)
     \/ \E ok \in BOOLEAN : RefreshReturn(i, ok)
     \/ \E ok \in BOOLEAN : GatewayReturn(i, ok)
     \/ WsOpen(i)
     \/ WsReady(i)
     \/ WsError(i)
     \/ \E code \in CloseCodes : WsClose(i, code)
     \/ ReconnectTimer(i)
     \/ ChannelMessage(i)

NextChannels ==
  \/ \E config \in Configs : SaveSettings(config)
  \/ WebChat
  \/ \E i \in Instances : ChannelStep(i)

SpecChannels == InitChannels /\ [][NextChannels]_vars

\* ChannelManager.stopAll(): every instance the manager holds is stopped
\* and the map is cleared
stopAll(st) ==
  [channels |-> [id \in ChannelIds |-> 0],
   inst |-> [i \in 1..Len(st.inst) |->
               IF \E id \in ChannelIds : st.channels[id] = i
               THEN stop(st.inst[i]) ELSE st.inst[i]]]

\* a call of stopAll; the server itself makes none, an embedding program can
StopAll ==
  /\ up
  /\ \E id \in ChannelIds : channels[id] # 0
  /\ LET st == stopAll([channels |-> channels, inst |-> inst]) IN
     /\ channels' = st.channels
     /\ inst' = st.inst
  /\ UNCHANGED << saved, used, up, notChannels >>

NextManager == NextChannels \/ StopAll

SpecManager == InitChannels /\ [][NextManager]_vars

\* ------------------------------------------------------------------------
\* Notions used by the properties
\* ------------------------------------------------------------------------

TypeOK ==
  \A e \in Exchanges :
    pc[e] \in {"idle", "rejected", "probing", "awaitLLM", "inCall", "ended"}

\* the messages runChat was given: the caller's history and the new message
Given(e) == Len(req[e].history) + 1

\* the positions of the messages runChat appended to its copy
Appended(e) == (Given(e) + 1)..Len(history[e])

IsBlocks(m) == "content" \in DOMAIN m

\* the tool requests of a message
ToolUses(m) == IF IsBlocks(m) THEN FilterType(m.content, "tool_use") ELSE <<>>

\* m is one user message that answers exactly the requests tcs, in order
Answers(m, tcs) ==
  /\ m.role = "user"
  /\ IsBlocks(m)
  /\ Len(m.content) = Len(tcs)
  /\ \A k \in 1..Len(tcs) :
       m.content[k].type = "tool_result" /\ m.content[k].tool_use_id = tcs[k].id

CountType(evs, type) == Cardinality({i \in 1..Len(evs) : evs[i].type = type})

\* the turns of exchange e in which the model asked for tools
ToolTurns(e) ==
  Cardinality({j \in Appended(e) :
                 history[e][j].role = "assistant" /\ ToolUses(history[e][j]) # <<>>})

\* the model calls of exchange e that succeeded
AssistantMessages(e) ==
  Cardinality({j \in Appended(e) : history[e][j].role = "assistant"})

\* the tool names of the registry built for exchange e
RegistryNames(e) ==
  LET names == ToolNames(subAgentTools[e], EnabledSkills(skills[e])) IN
  {names[i] : i \in 1..Len(names)}

\* the token stored for a conversation key and a collaborator
StoredToken(sessions, key, id) ==
  IF key \in DOMAIN sessions THEN Lookup(sessions[key], id) ELSE Undefined

\* ------------------------------------------------------------------------
\* Properties
\* ------------------------------------------------------------------------

\* C1: in runChat's history every assistant message with tool requests that
\* has a successor is followed by one user message whose tool_result blocks
\* answer those requests one to one and in order (tool_use_id = request id);
\* every user message runChat appends is such an answer to the assistant
\* message right before it; and the results being built during a turn answer
\* the first requests of the latest assistant message, whatever the outcome
\* of each dispatch.
C1_ResultsAnswerRequests ==
  \A e \in Exchanges :
    /\ \A j \in Appended(e) :
         LET m == history[e][j] IN
         /\ (m.role = "assistant" /\ ToolUses(m) # <<>> /\ j < Len(history[e]))
              => Answers(history[e][j + 1], ToolUses(m))
         /\ m.role = "user"
              => /\ j - 1 \in Appended(e)
                 /\ history[e][j - 1].role = "assistant"
                 /\ ToolUses(history[e][j - 1]) # <<>>
                 /\ Answers(m, ToolUses(history[e][j - 1]))
    /\ Len(toolResults[e]) <= Len(toolCalls[e])
    /\ \A k \in 1..Len(toolResults[e]) :
         /\ toolResults[e][k].type = "tool_result"
         /\ toolResults[e][k].tool_use_id = toolCalls[e][k].id
    /\ pc[e] = "inCall" => toolCalls[e] = ToolUses(history[e][Len(history[e])])

\* C1 witness: a result message answers an unknown tool and a failed
\* delegation of the same turn
C1_Witness ==
  \E e \in Exchanges : \E j \in Appended(e) :
    LET m == history[e][j] IN
    /\ m.role = "user"
    /\ Len(m.content) = 2
    /\ m.content[1].content = ToolNotFound
    /\ m.content[2].content = CallFailedPrefix \o "SubAgent error 500: boom"

\* C2: one runChat invocation makes at most MAX_TURNS model calls
C2_ModelCallsBounded == \A e \in Exchanges : llmCalls[e] <= MAX_TURNS

\* C2 witness: the tenth model call of an exchange has been answered with
\* another tool request
C2_Witness ==
  \E e \in Exchanges : llmCalls[e] = MAX_TURNS /\ ToolTurns(e) = MAX_TURNS

\* the last event written to the stream of exchange e
LastEvent(e) == events[e][Len(events[e])]

Terminals(e) == CountType(events[e], "done") + CountType(events[e], "error")

\* C3 (as claimed): once a model call has succeeded, dispatching its tool
\* requests never ends the exchange with an error event, so every error
\* event comes from a failed model call
C3_DispatchNeverFatal ==
  \A e \in Exchanges : CountType(events[e], "error") > 0 => llmFailed[e] > 0

\* C4 (as claimed): every request whose name is not in the registry of
\* this invocation is answered 'Tool not found', and a turn holding such a
\* request does not end the exchange before the budget is used up
C4_UnregisteredIsToolNotFound ==
  \A e \in Exchanges :
    /\ \A k \in 1..Len(toolResults[e]) :
         toolCalls[e][k].name \notin RegistryNames(e)
           => toolResults[e][k].content = ToolNotFound
    /\ ( /\ \E k \in 1..Len(toolResults[e]) : toolCalls[e][k].name \notin RegistryNames(e)
         /\ pc[e] = "ended" )
         => \/ llmFailed[e] > 0
            \/ turn[e] = MAX_TURNS /\ LastEvent(e) = DoneEvent

\* C4 (amended): a request whose name is not in the registry and is not
\* read_skill is answered 'Tool not found', and a read_skill request is
\* answered by the read_skill branch even when read_skill is not registered;
\* an exception that ends the dispatch is never raised by a request for an
\* unregistered name; and once a result message holding a 'Tool not found'
\* answer is appended, a further model call has been made unless the budget
\* is used up, in which case the exchange ends with done.
C4_UnknownToolAnswered ==
  \A e \in Exchanges :
    /\ \A k \in 1..Len(toolResults[e]) :
         /\ (toolCalls[e][k].name \notin RegistryNames(e) /\ toolCalls[e][k].name # ReadSkillName)
              => toolResults[e][k].content = ToolNotFound
         /\ toolCalls[e][k].name = ReadSkillName
              => toolResults[e][k].content # ToolNotFound
    /\ (pc[e] = "ended" /\ CountType(events[e], "error") > 0 /\ llmFailed[e] = 0)
         => /\ Len(toolResults[e]) < Len(toolCalls[e])
            /\ toolCalls[e][Len(toolResults[e]) + 1].name \in RegistryNames(e)
    /\ ( /\ Len(history[e]) \in Appended(e)
         /\ history[e][Len(history[e])].role = "user"
         /\ \E k \in 1..Len(history[e][Len(history[e])].content) :
              history[e][Len(history[e])].content[k].content = ToolNotFound )
         => IF turn[e] < MAX_TURNS
            THEN /\ llmCalls[e] = turn[e] + 1
                 /\ pc[e] = "awaitLLM" \/ (pc[e] = "ended" /\ llmFailed[e] > 0)
            ELSE pc[e] = "ended" /\ LastEvent(e) = DoneEvent

\* C4 witness: the model asked for an unknown tool in its first turn, the
\* answer is in the history and the second model call is under way
C4_Witness ==
  \E e \in Exchanges :
    /\ pc[e] = "awaitLLM"
    /\ llmCalls[e] = 2
    /\ history[e][Len(history[e])].role = "user"
    /\ IsBlocks(history[e][Len(history[e])])
    /\ history[e][Len(history[e])].content[1].content = ToolNotFound

\* C5 (as claimed): when the model asked for tools in each of the MAX_TURNS
\* turns, the exchange ends with done and without an error event
C5_ExhaustionEndsWithDone ==
  \A e \in Exchanges :
    (pc[e] = "ended" /\ ToolTurns(e) = MAX_TURNS)
      => LastEvent(e) = DoneEvent /\ CountType(events[e], "error") = 0

\* C6: after a failed model call (a non-success response, or a response
\* body that breaks while it is read) the exchange has ended with exactly one
\* error event and no done event, the event carries the message of the
\* failure, the failed call was the last model call (it was not tried again)
\* and no collaborator call is made
C6_UpstreamFailureIsFatal ==
  \A e \in Exchanges :
    llmFailed[e] > 0 =>
      /\ llmFailed[e] = 1
      /\ pc[e] = "ended"
      /\ inflight[e] = {}
      /\ CountType(events[e], "error") = 1
      /\ CountType(events[e], "done") = 0
      /\ \/ LastEvent(e) = ErrorEvent(UpstreamError(getDefaultModel))
         \/ LastEvent(e) = ErrorEvent(StreamError)
      /\ llmCalls[e] = AssistantMessages(e) + 1

\* C6 witness: the model call of a later turn failed, after a delegation
C6_Witness ==
  \E e \in Exchanges :
    llmFailed[e] = 1 /\ llmCalls[e] >= 2 /\ CountType(events[e], "tool_result") > 0

\* C7: an accepted exchange writes no terminal event while it runs, and
\* once ended its stream holds exactly one terminal event (done or error),
\* which is its last event; a rejected request writes no event
C7_OneTerminalEvent ==
  \A e \in Exchanges :
    /\ pc[e] \in {"idle", "rejected"} => events[e] = <<>>
    /\ pc[e] \in {"probing", "awaitLLM", "inCall"} => Terminals(e) = 0
    /\ pc[e] = "ended"
         => /\ Terminals(e) = 1
            /\ LastEvent(e).type \in {"done", "error"}

\* C7 witness: an exchange ended by an exception of the dispatch, after text
\* and tool events
C7_Witness ==
  \E e \in Exchanges :
    /\ pc[e] = "ended"
    /\ LastEvent(e).type = "error"
    /\ llmFailed[e] = 0
    /\ CountType(events[e], "tool_result") > 0

\* the token exchange e finds stored for the collaborator of a call
StoredFor(sessions, e, call) == StoredToken(sessions, Cid(e), call.subAgentId)

\* C8 (as claimed): every delegation call carries as session_id exactly the
\* token stored for its conversation and collaborator when the call starts
C8_CallCarriesStoredToken ==
  [][\A e \in Exchanges : \A call \in inflight'[e] \ inflight[e] :
       call.body.session_id = StoredFor(conversationSessions', e, call)]_vars

\* C8 (amended): every delegation call carries the token stored for its
\* conversation and collaborator when the call starts if that token is a
\* non-empty string, and no session_id when nothing or the empty string is
\* stored; the stored token is the one the latest successful delegation to
\* that collaborator in that conversation returned, in whatever turn or
\* exchange it was made.
C8_CallCarriesTruthyToken ==
  [][\A e \in Exchanges : \A call \in inflight'[e] \ inflight[e] :
       LET stored == StoredFor(conversationSessions', e, call) IN
       /\ call.body.session_id = (IF Truthy(stored) THEN stored ELSE Undefined)
       /\ stored = lastToken'[<<Cid(e), call.subAgentId>>]]_vars

\* C8 witness: the first delegation of an exchange carries a token that an
\* earlier exchange on the same conversation received
C8_Witness ==
  \E e \in Exchanges : \E call \in inflight[e] :
    call.turn = 0 /\ call.idx = 1 /\ call.body.session_id = "s1"

\* C9: the token stored for a conversation and a collaborator is the token
\* of the latest successful delegation to it in that conversation: absent
\* when that reply had none, and untouched by failed delegations
C9_StoredIsLatestToken ==
  \A key \in ConversationKeys : \A id \in CollaboratorIds :
    StoredToken(conversationSessions, key, id) = lastToken[<<key, id>>]

\* C9 witness: a delegation failed after one that succeeded, and the token
\* of the successful one is still stored
C9_Witness ==
  \E e \in Exchanges : \E i, j \in 1..Len(events[e]) :
    /\ i < j
    /\ events[e][i] = ToolResultEvent(NameA, "42")
    /\ events[e][j] = ToolResultEvent(NameA, CallFailedPrefix \o "SubAgent error 500: boom")
    /\ StoredToken(conversationSessions, Cid(e), IdA) = "s1"

\* C10: an exchange has at most one collaborator call in flight, only while
\* it waits for it; the call is for the request right after those already
\* answered, so every earlier request of the turn has its result and no
\* later request has been dispatched
C10_OneCallAtATime ==
  \A e \in Exchanges :
    /\ Cardinality(inflight[e]) <= 1
    /\ pc[e] = "inCall" <=> inflight[e] # {}
    /\ \A call \in inflight[e] :
         /\ call.turn = turn[e]
         /\ call.idx = Len(toolResults[e]) + 1
         /\ call.idx <= Len(toolCalls[e])
         /\ call.tool = toolCalls[e][call.idx].name
         /\ CountType(events[e], "tool_call") = CountType(events[e], "tool_result") + 1

\* C10 witness: the call of the second request of a turn is in flight
\* after the call of the first one has returned
C10_Witness ==
  \E e \in Exchanges : \E call \in inflight[e] :
    /\ call.idx = 2
    /\ toolCalls[e][1].name = NameA
    /\ Len(toolResults[e]) = 1

IsToolEvent(ev) == ev.type \in {"tool_call", "tool_result"}

\* the position of the last tool event before position j, 0 when none
PrevToolEvent(evs, j) ==
  LET before == {i \in 1..(j - 1) : IsToolEvent(evs[i])} IN
  IF before = {} THEN 0 ELSE CHOOSE i \in before : \A k \in before : k <= i

\* C11: the stream holds the events in the order they were written: it only
\* grows at its end; the events of a turn come before those of the next
\* turn; within a turn no text event follows a tool event; every tool_result
\* event has a tool_call event as the latest tool event before it, with the
\* same tool name; and a tool_call event is the first tool event or follows
\* a tool_result, so no two tool calls are open at once.
C11_EventsInOrder ==
  /\ [](\A e \in Exchanges :
         /\ Len(eventTurn[e]) = Len(events[e])
         /\ \A i, j \in 1..Len(events[e]) :
              i < j =>
                /\ eventTurn[e][i] <= eventTurn[e][j]
                /\ (eventTurn[e][i] = eventTurn[e][j] /\ IsToolEvent(events[e][i]))
                     => events[e][j].type # "text"
         /\ \A j \in 1..Len(events[e]) :
              LET i == PrevToolEvent(events[e], j) IN
              /\ events[e][j].type = "tool_result"
                   => /\ i > 0
                      /\ events[e][i].type = "tool_call"
                      /\ events[e][i].tool = events[e][j].tool
              /\ events[e][j].type = "tool_call"
                   => i = 0 \/ events[e][i].type = "tool_result")
  /\ [][\A e \in Exchanges :
          /\ Len(events'[e]) >= Len(events[e])
          /\ SubSeq(events'[e], 1, Len(events[e])) = events[e]]_vars

\* C11 witness: text, a tool call and its result in one turn, then text of
\* the next turn
C11_Witness ==
  \E e \in Exchanges : \E i, j, k \in 1..Len(events[e]) :
    /\ i < j /\ j < k
    /\ events[e][i].type = "text" /\ eventTurn[e][i] = 0
    /\ events[e][j].type = "tool_result" /\ eventTurn[e][j] = 0
    /\ events[e][k].type = "text" /\ eventTurn[e][k] = 1

\* a request that resolves to a collaborator of the registry
ResolvesToCollaborator(e, tc) ==
  tc.name # ReadSkillName /\ FindEntry(subAgentTools[e], tc.name) # 0

\* the results produced so far for the requests of the assistant message at
\* position j of the history
ResultsOf(e, j) ==
  IF j < Len(history[e]) THEN history[e][j + 1].content ELSE toolResults[e]

\* what the stream tells about a tool event
ToolEventView(ev) ==
  IF ev.type = "tool_call" THEN [type |-> "tool_call", tool |-> ev.tool]
  ELSE [type |-> "tool_result", tool |-> ev.tool, content |-> ev.content]

RECURSIVE ToolEventViews(_)
ToolEventViews(evs) ==
  IF evs = <<>> THEN <<>>
  ELSE IF IsToolEvent(Head(evs))
       THEN <<ToolEventView(Head(evs))>> \o ToolEventViews(Tail(evs))
       ELSE ToolEventViews(Tail(evs))

\* a tool_call and a tool_result event for each of the answered requests
\* tcs[k..] that is a collaborator request (or for each one, with every)
RECURSIVE EventsAround(_, _, _, _, _)
EventsAround(e, tcs, results, k, every) ==
  IF k > Len(results) THEN <<>>
  ELSE (IF every \/ ResolvesToCollaborator(e, tcs[k])
        THEN << [type |-> "tool_call", tool |-> tcs[k].name],
                [type |-> "tool_result", tool |-> tcs[k].name,
                 content |-> results[k].content] >>
        ELSE <<>>) \o EventsAround(e, tcs, results, k + 1, every)

\* the tool events the answered requests of the messages from position j on
\* account for, and the tool_call of the call in flight
RECURSIVE ExpectedToolEvents(_, _, _)
ExpectedToolEvents(e, j, every) ==
  IF j > Len(history[e])
  THEN [c \in 1..Cardinality(inflight[e]) |->
          [type |-> "tool_call", tool |-> toolCalls[e][Len(toolResults[e]) + 1].name]]
  ELSE (IF history[e][j].role = "assistant"
        THEN EventsAround(e, ToolUses(history[e][j]), ResultsOf(e, j), 1, every)
        ELSE <<>>) \o ExpectedToolEvents(e, j + 1, every)

\* C12 (as claimed): every request that has been answered, whatever it
\* resolved to, has its tool_call event and then its tool_result event
C12_EveryDispatchHasEvents ==
  \A e \in Exchanges :
    ToolEventViews(events[e]) = ExpectedToolEvents(e, Given(e) + 1, TRUE)

\* C12 (amended): the tool events of the stream are exactly, in order, a
\* tool_call and then a tool_result event (with the content of the result)
\* for each answered request that resolved to a collaborator, and the
\* tool_call of the call in flight; requests answered by read_skill or with
\* 'Tool not found' write no event
C12_CollaboratorDispatchHasEvents ==
  \A e \in Exchanges :
    ToolEventViews(events[e]) = ExpectedToolEvents(e, Given(e) + 1, FALSE)

\* C12 witness: a turn answered an unknown tool without events and then a
\* failed delegation with both events
C12_Witness ==
  \E e \in Exchanges :
    /\ Len(toolResults[e]) = 2
    /\ toolResults[e][1].content = ToolNotFound
    /\ CountType(events[e], "tool_call") = 1
    /\ LastEvent(e) = ToolResultEvent(NameA, CallFailedPrefix \o "SubAgent error 500: boom")

\* the text of a sequence of text blocks, and of a sequence of text events
RECURSIVE BlocksText(_)
BlocksText(blocks) ==
  IF blocks = <<>> THEN "" ELSE Head(blocks).text \o BlocksText(Tail(blocks))

RECURSIVE EventsText(_)
EventsText(evs) ==
  IF evs = <<>> THEN "" ELSE Head(evs).content \o EventsText(Tail(evs))

\* C13: an assistant message without tool request is the last message of
\* the history and ends the loop: no model call follows it and the stream
\* ends with done; when it is the answer to the first model call, that call
\* is the only one, no collaborator was called, and the stream is the text
\* events of its fragments, in order, followed by done
C13_StopsAtFirstTextOnlyAnswer ==
  \A e \in Exchanges : \A j \in Appended(e) :
    (history[e][j].role = "assistant" /\ ToolUses(history[e][j]) = <<>>)
      => /\ j = Len(history[e])
         /\ pc[e] = "ended"
         /\ llmFailed[e] = 0
         /\ llmCalls[e] = AssistantMessages(e)
         /\ LastEvent(e) = DoneEvent
         /\ j = Given(e) + 1
              => /\ llmCalls[e] = 1
                 /\ inflight[e] = {}
                 /\ conversationSessions[Cid(e)] = EmptyObject
                      \/ \E d \in Exchanges \ {e} : pc[d] # "idle"
                 /\ \A i \in 1..(Len(events[e]) - 1) : events[e][i].type = "text"
                 /\ EventsText(SubSeq(events[e], 1, Len(events[e]) - 1))
                      = BlocksText(history[e][j].content)

\* C13 witness: the first answer was one text block that arrived in two
\* fragments
C13_Witness ==
  \E e \in Exchanges :
    /\ pc[e] = "ended"
    /\ events[e] = <<TextEvent("2+2 "), TextEvent("is 4"), DoneEvent>>
    /\ Len(history[e]) = Given(e) + 1

\* the configured collaborators that are enabled and answered the probe of
\* exchange e
Reachable(e) == {i \in 1..Len(subAgents) : subAgents[i].enabled /\ probed[e][i]}

\* C14: once the probes of an exchange have returned, its registry holds
\* one entry for each configured collaborator that is enabled and whose
\* probe succeeded, and no other, in configuration order; the exchange has
\* gone on to its first model call without an event (the stream holds only
\* the text deltas of that call), whatever probes failed; and the tool list sent to the model is the tools of these
\* entries, followed by read_skill exactly when a skill is enabled
C14_RegistryIsReachableCollaborators ==
  \A e \in Exchanges :
    pc[e] \in {"awaitLLM", "inCall", "ended"} =>
      /\ Len(subAgentTools[e]) = Cardinality(Reachable(e))
      /\ \A i \in Reachable(e) :
           LET k == Cardinality({j \in Reachable(e) : j <= i}) IN
           /\ subAgentTools[e][k].subAgentId = subAgents[i].id
           /\ subAgentTools[e][k].tool.name = <<"subagent_">> \o subAgents[i].id
      /\ llmCalls[e] >= 1
      /\ (pc[e] = "awaitLLM" /\ llmCalls[e] = 1)
           => events[e] = [i \in 1..Len(streamed[e]) |-> TextEvent(streamed[e][i])]
      /\ LET sent == IF "tools" \in DOMAIN upstream[e] THEN upstream[e].tools ELSE <<>>
             n == Len(subAgentTools[e])
         IN /\ Len(sent) >= n
            /\ \A k \in 1..n : sent[k] = subAgentTools[e][k].tool.name
            /\ IF \E k \in 1..Len(skills[e]) : skills[e][k].enabled
               THEN Len(sent) = n + 1 /\ sent[n + 1] = ReadSkillName
               ELSE Len(sent) = n

\* C14 witness: the probe of the first collaborator failed, the second one
\* and read_skill are registered and the model was called
C14_Witness ==
  \E e \in Exchanges :
    /\ pc[e] = "awaitLLM"
    /\ ~probed[e][1] /\ probed[e][2]
    /\ upstream[e].tools = <<NameB, ReadSkillName>>

\* the exchanges whose runChat invocation has built its request
Called(e) == pc[e] \in {"awaitLLM", "inCall", "ended"}

SomeSkillEnabled(e) == \E k \in 1..Len(skills[e]) : skills[e][k].enabled

SentTools(e) == IF "tools" \in DOMAIN upstream[e] THEN upstream[e].tools ELSE <<>>

\* C15: the request sent to the model lists read_skill exactly when at
\* least one skill passed to runChat is enabled, and carries a system prompt
\* (a built prompt, not null) exactly under the same condition; with no
\* skill, or only disabled ones, it has neither
C15_ReadSkillAndPreambleIffEnabled ==
  \A e \in Exchanges :
    Called(e) =>
      /\ (\E k \in 1..Len(SentTools(e)) : SentTools(e)[k] = ReadSkillName) <=> SomeSkillEnabled(e)
      /\ "system" \in DOMAIN upstream[e] <=> SomeSkillEnabled(e)
      /\ "system" \in DOMAIN upstream[e] => upstream[e].system.kind = "string"

\* C15 witness: runChat was given one disabled skill and no collaborator
\* is reachable: the request has no tools and no system prompt
C15_Witness ==
  \E e \in Exchanges :
    /\ pc[e] = "awaitLLM"
    /\ skills[e] = <<SkillCsv>>
    /\ DOMAIN upstream[e] = {}

\* the requests of exchange e that have been answered, each with its result
Answered(e) ==
  UNION { { <<ToolUses(history[e][j])[k], ResultsOf(e, j)[k]>> :
              k \in 1..Len(ResultsOf(e, j)) } :
          j \in {i \in Appended(e) :
                   history[e][i].role = "assistant" /\ ToolUses(history[e][i]) # <<>>} }

\* the enabled skills of exchange e with the given name, by position
EnabledNamed(e, n) ==
  {k \in 1..Len(skills[e]) : skills[e][k].enabled /\ skills[e][k].name = n}

EnabledNames(e) ==
  LET on == SelectSeq(skills[e], LAMBDA s : s.enabled) IN
  [k \in 1..Len(on) |-> on[k].name]

\* C16: the result of a read_skill request is the content of the (first)
\* enabled skill whose name equals skill_name; when no enabled skill has that
\* name (the name is unknown, missing, or that of a disabled skill) it is the
\* not-found text listing the names of the enabled skills, and in particular
\* not the content of a disabled skill; and a read_skill request raises no
\* error event
C16_ReadSkillByExactEnabledName ==
  \A e \in Exchanges :
    /\ \A p \in Answered(e) :
         p[1].name = ReadSkillName =>
           LET n == InputSkillName(p[1].input)
               hits == EnabledNamed(e, n)
           IN /\ hits # {}
                   => p[2].content = skills[e][CHOOSE k \in hits : \A j \in hits : k <= j].content
              /\ hits = {}
                   => /\ p[2].content = "Skill \"" \o Str(n) \o "\" not found. Available: "
                                          \o Join(EnabledNames(e))
                      /\ \A k \in 1..Len(skills[e]) : p[2].content # skills[e][k].content
    /\ CountType(events[e], "error") > 0 => llmFailed[e] > 0

\* C16 witness: the model asked for a disabled skill and was told which
\* skill is available
C16_Witness ==
  \E e \in Exchanges : \E p \in Answered(e) :
    /\ skills[e] = <<SkillCsv, SkillPdf>>
    /\ p[1].input = SkillInput("csv")
    /\ p[2].content = "Skill \"csv\" not found. Available: pdf"

\* C17: the content of a skill passed to runChat is in no line of the
\* system prompt and in no text block runChat appended to the history; it
\* is the content of a tool_result only for a read_skill request that named
\* that skill; so a skill that was never requested by name has its content
\* nowhere in what is sent to the model
C17_ContentOnlyOnRequest ==
  \A e \in Exchanges : \A k \in 1..Len(skills[e]) :
    LET s == skills[e][k] IN
    /\ "system" \in DOMAIN upstream[e]
         => \A i \in 1..Len(upstream[e].system.lines) : upstream[e].system.lines[i] # s.content
    /\ \A j \in Appended(e) :
         history[e][j].role = "assistant"
           => \A i \in 1..Len(history[e][j].content) :
                history[e][j].content[i].type = "text"
                  => history[e][j].content[i].text # s.content
    /\ \A p \in Answered(e) :
         p[2].content = s.content
           => p[1].name = ReadSkillName /\ InputSkillName(p[1].input) = s.name
    /\ (\A p \in Answered(e) :
           ~(p[1].name = ReadSkillName /\ InputSkillName(p[1].input) = s.name))
         => \A j \in Appended(e) :
              history[e][j].role = "user"
                => \A i \in 1..Len(history[e][j].content) :
                     history[e][j].content[i].content # s.content

\* C17 witness: of two enabled skills one was requested and its content is
\* in the history, the other was not
C17_Witness ==
  \E e \in Exchanges :
    /\ skills[e] = <<SkillPdf, SkillCsvOn>>
    /\ pc[e] = "awaitLLM"
    /\ history[e][Len(history[e])] =
         BlockMessage("user", <<ToolResult("tu1", SkillPdf.content)>>)

\* the enabled bundles of the configuration
EnabledConfigSkills == SelectSeq(skillsConfig, LAMBDA s : s.enabled)

\* C18 (as claimed): when the configuration holds an enabled bundle, the
\* request an exchange of the chat route sends to the model lists read_skill
\* and has a system prompt with the name and the description of each enabled
\* bundle
C18_ConfiguredSkillsReachTheModel ==
  \A e \in Exchanges :
    (Called(e) /\ EnabledConfigSkills # <<>>) =>
      /\ \E k \in 1..Len(SentTools(e)) : SentTools(e)[k] = ReadSkillName
      /\ "system" \in DOMAIN upstream[e]
      /\ \A k \in 1..Len(EnabledConfigSkills) :
           LET lines == upstream[e].system.lines IN
           /\ \E i \in 1..Len(lines) :
                lines[i] = "    <name>" \o xmlEscape(EnabledConfigSkills[k].name) \o "</name>"
           /\ \E i \in 1..Len(lines) :
                lines[i] = "    <description>" \o xmlEscape(EnabledConfigSkills[k].description)
                             \o "</description>"

\* the concatenation of the strings of a sequence that are truthy
RECURSIVE ConcatTruthy(_)
ConcatTruthy(strs) ==
  IF strs = <<>> THEN ""
  ELSE (IF Truthy(Head(strs)) THEN Head(strs) ELSE "") \o ConcatTruthy(Tail(strs))

\* what a payload stands for: its JSON value, the empty object when it is
\* not JSON
PayloadValue(raw) == IF JSONParse(raw).ok THEN JSONParse(raw).value ELSE EmptyInput

\* block b of a returned message is the tool_use block with that id, name
\* and payload: its input is the empty object when the payload is not JSON
\* (exact tells to compare the input of a payload that is JSON as well)
IsToolUseOf(b, id, name, raw, exact) ==
  /\ b.type = "tool_use" /\ b.id = id /\ b.name = name
  /\ ~JSONParse(raw).ok => b.input = EmptyInput
  /\ exact => b.input = PayloadValue(raw)

\* the blocks a Format-A upstream sent that make a content block: those it
\* stopped, but for the text blocks without text
SentContent ==
  SelectSeq(sentBlocks, LAMBDA b : /\ b.kind # "ignored"
                                   /\ b.stop
                                   /\ b.kind = "text" => ConcatTruthy(b.fragments) # "")

\* the fragments of tool calls in the chunks of a Format-B stream, in order
RECURSIVE ToolFragments(_)
ToolFragments(lines) ==
  IF lines = <<>> THEN <<>>
  ELSE (IF Head(lines).kind = "event" THEN Head(lines).event.delta.tool_calls ELSE <<>>)
       \o ToolFragments(Tail(lines))

\* the text of the chunks of a Format-B stream
StreamText(lines) ==
  ConcatTruthy([i \in 1..Len(lines) |->
                  IF lines[i].kind = "event" THEN lines[i].event.delta.content ELSE ""])

\* the call of index i as its fragments give it: the last id, the names
\* and the arguments concatenated
CallAt(lines, i) ==
  LET frs == SelectSeq(ToolFragments(lines), LAMBDA f : f.index = i)
      ids == {k \in 1..Len(frs) : Truthy(frs[k].id)}
  IN [ id |-> IF ids = {} THEN "" ELSE frs[CHOOSE k \in ids : \A j \in ids : j <= k].id,
       name |-> ConcatTruthy([k \in 1..Len(frs) |-> frs[k].name]),
       raw |-> ConcatTruthy([k \in 1..Len(frs) |-> frs[k].arguments]) ]

CallIndexes(lines) ==
  {ToolFragments(lines)[k].index : k \in 1..Len(ToolFragments(lines))}

\* a terminal finish reason came with the stream, or [DONE]
HasFinish(lines) ==
  \E i \in 1..Len(lines) :
    lines[i].kind = "event" /\ lines[i].event.finish_reason \in {"stop", "tool_calls"}

HasDone(lines) == \E i \in 1..Len(lines) : lines[i].kind = "done"

\* no chunk follows a terminal finish reason
Regular(lines) ==
  \A i \in 1..Len(lines) : \A j \in 1..Len(lines) :
    ( /\ i < j
      /\ lines[i].kind = "event"
      /\ lines[i].event.finish_reason \in {"stop", "tool_calls"} ) => lines[j].kind # "event"

\* block b is the tool_use block of some call as it was buffered after
\* some line of the stream
BufferedSometime(lines, b) ==
  \E p \in 1..Len(lines) : \E i \in CallIndexes(SubSeq(lines, 1, p)) :
    LET c == CallAt(SubSeq(lines, 1, p), i) IN IsToolUseOf(b, c.id, c.name, c.raw, TRUE)

\* the indexes whose call is part of the message: all of them after a
\* terminal finish reason, else those whose call has a name
ReturnedIndexes(lines, namedOnly) ==
  {i \in CallIndexes(lines) : ~namedOnly \/ CallAt(lines, i).name # ""}

\* the message a Format-B adapter returned holds the text of the stream as
\* one text block (none without text), then one tool_use block for each of
\* the given indexes, in ascending order
ReturnedTextAndCalls(lines, indexes, exact) ==
  LET t == IF StreamText(lines) = "" THEN 0 ELSE 1 IN
  /\ Len(content) = t + Cardinality(indexes)
  /\ t = 1 => content[1] = TextBlock(StreamText(lines))
  /\ \A i \in indexes :
       LET k == t + Cardinality({j \in indexes : j <= i}) IN
       IsToolUseOf(content[k], CallAt(lines, i).id, CallAt(lines, i).name,
                   CallAt(lines, i).raw, exact)

\* C19: no adapter call fails on the payload of a tool call; the message a
\* Format-A adapter returns has one block for each text and tool block sent,
\* in order, with the text, the id and the name sent, and the message a
\* Format-B adapter returns has the text block and the tool_use blocks of
\* the buffered calls (when chunks follow a terminal finish reason, each of
\* its tool_use blocks is a call as buffered at some line); in both, a
\* tool_use block whose payload is not JSON (the empty payload included) has
\* the empty object as input
C19_UnparsablePayloadGivesEmptyObject ==
  /\ parserPc # "threw"
  /\ (parserPc = "returned" /\ format = "anthropic") =>
       /\ Len(content) = Len(SentContent)
       /\ \A k \in 1..Len(SentContent) :
            IF SentContent[k].kind = "text"
            THEN content[k] = TextBlock(ConcatTruthy(SentContent[k].fragments))
            ELSE IsToolUseOf(content[k], SentContent[k].id, SentContent[k].name,
                             ConcatTruthy(SentContent[k].fragments), FALSE)
  /\ (parserPc = "returned" /\ format = "openai") =>
       IF Regular(stream)
       THEN ReturnedTextAndCalls(stream, ReturnedIndexes(stream, ~HasFinish(stream)), FALSE)
       ELSE \A k \in 1..Len(content) :
              content[k].type = "tool_use" => BufferedSometime(stream, content[k])

\* C19 witness: a Format-A message with a tool block whose payload was cut
\* short, then a tool block without payload, then text
C19_Witness ==
  /\ parserPc = "returned"
  /\ content = <<ToolUse("tu3", "f", EmptyInput), ToolUse("tu1", "f", EmptyInput),
                 TextBlock("Hello")>>

\* C20 (as claimed): when a Format-B stream ends without terminal finish
\* reason and without [DONE], the returned message holds the text received
\* as one text block and one tool_use block for every call that has buffered
\* fragments, its input the parse of the concatenated arguments
C20_FlushReturnsEveryBufferedCall ==
  (parserPc = "returned" /\ format = "openai" /\ ~HasFinish(stream) /\ ~HasDone(stream))
    => ReturnedTextAndCalls(stream, CallIndexes(stream), TRUE)

\* C20 (amended): when a Format-B stream ends without terminal finish
\* reason and without [DONE], the returned message holds the text received
\* as one text block and one tool_use block for every buffered call that
\* received a name, in index order, its input the parse of the concatenated
\* arguments (the empty object when they are not JSON); a buffered call that
\* never received a name is left out
C20_FlushReturnsNamedCalls ==
  (parserPc = "returned" /\ format = "openai" /\ ~HasFinish(stream) /\ ~HasDone(stream))
    => ReturnedTextAndCalls(stream, ReturnedIndexes(stream, TRUE), TRUE)

\* C20 witness: three chunks of the call of index 0, the arguments in two
\* fragments, and the stream ends
C20_Witness ==
  /\ parserPc = "returned"
  /\ stream = << DataLine(ToolChunk(0, "call_0", "f", Undefined)),
                 DataLine(ToolChunk(0, Undefined, Undefined, "{\"a\":1")),
                 DataLine(ToolChunk(0, Undefined, Undefined, "}")) >>
  /\ content = <<ToolUse("call_0", "f", [kind |-> "object", a |-> 1])>>

\* C21 (as claimed): whatever the terminal signals of a Format-B stream, the
\* returned message has exactly one tool_use block for each tool-call index
\* of the stream, with the id and the name received for that index and the
\* parse of all its argument fragments concatenated as input
C21_OneToolUsePerIndex ==
  (parserPc = "returned" /\ format = "openai") =>
    LET tus == FilterType(content, "tool_use") IN
    /\ Len(tus) = Cardinality(CallIndexes(stream))
    /\ \A i \in CallIndexes(stream) :
         \E k \in 1..Len(tus) :
           IsToolUseOf(tus[k], CallAt(stream, i).id, CallAt(stream, i).name,
                       CallAt(stream, i).raw, TRUE)

\* the text fragment a line of the stream carries, Undefined when it
\* carries none
LineText(line) ==
  IF line.kind # "event" THEN Undefined
  ELSE IF format = "anthropic"
  THEN IF line.event.type = "content_block_delta" /\ line.event.delta.type = "text_delta"
       THEN line.event.delta.text ELSE Undefined
  ELSE line.event.delta.content

\* the strings a line of the stream carries for a tool call: a name, a
\* fragment of the input payload
LineToolStrings(line) ==
  IF line.kind # "event" THEN {}
  ELSE IF format = "anthropic"
  THEN IF line.event.type = "content_block_start" /\ line.event.content_block.type = "tool_use"
       THEN {line.event.content_block.name}
       ELSE IF line.event.type = "content_block_delta"
               /\ line.event.delta.type = "input_json_delta"
       THEN {line.event.delta.partial_json}
       ELSE {}
  ELSE UNION { {line.event.delta.tool_calls[k].name, line.event.delta.tool_calls[k].arguments} :
               k \in 1..Len(line.event.delta.tool_calls) }

\* the text events of the non-empty text fragments of the first n lines
ArrivedText(n) ==
  LET texts == [i \in 1..n |-> LineText(stream[i])] IN
  [k \in 1..Len(SelectSeq(texts, Truthy)) |-> TextEvent(SelectSeq(texts, Truthy)[k])]

\* C22: while an adapter reads a stream, after each line the events it has
\* passed to onEvent that carry text are the non-empty text fragments of the
\* lines read so far, one event per fragment and in arrival order; every
\* event it passes is a text event, and none carries the name or a payload
\* fragment of a tool call
C22_TextForwardedAsItArrives ==
  format # "none" =>
    /\ SelectSeq(emitted, LAMBDA ev : ev.content # "") = ArrivedText(pos - 1)
    /\ \A k \in 1..Len(emitted) :
         /\ emitted[k].type = "text"
         /\ \A i \in 1..Len(stream) : emitted[k].content \notin LineToolStrings(stream[i])

\* C22 witness: a Format-A adapter has built a tool block and is inside the
\* text block that follows: the first fragment was passed on, the block is
\* not stopped yet
C22_Witness ==
  /\ format = "anthropic" /\ parserPc = "loop" /\ pos <= Len(stream)
  /\ content = <<ToolUse("tu2", "g", [kind |-> "object", a |-> 1])>>
  /\ currentText = "Hel"
  /\ emitted = <<TextEvent("Hel")>>

\* C23: when an adapter call returns, the text of the events it passed to
\* onEvent, concatenated, is the text of the text blocks of the message it
\* returns, concatenated
C23_TextSeenIsTextKept ==
  (format # "none" /\ parserPc = "returned") =>
    EventsText(emitted) = BlocksText(FilterType(content, "text"))

\* the line of the stream that ends block k of a Format-A stream
EndLine(k) == Len(BlocksLines(SubSeq(sentBlocks, 1, k)))

\* the content block a stopped block of a Format-A stream stands for
ExpectedBlock(b) ==
  IF b.kind = "text" THEN TextBlock(ConcatTruthy(b.fragments))
  ELSE ToolUse(b.id, b.name, PayloadValue(ConcatTruthy(b.fragments)))

\* the content blocks of the blocks stopped within the first n lines, in
\* the order of their stops; every tells to count the text blocks without
\* text as well
BlocksStopped(n, every) ==
  LET sel == SelectSeq([k \in 1..Len(sentBlocks) |-> k],
                       LAMBDA k : /\ sentBlocks[k].kind # "ignored"
                                  /\ sentBlocks[k].stop
                                  /\ EndLine(k) <= n
                                  /\ every \/ ExpectedBlock(sentBlocks[k]) # TextBlock(""))
  IN [j \in 1..Len(sel) |-> ExpectedBlock(sentBlocks[sel[j]])]

\* C24 (as claimed): while a Format-A adapter reads a stream and when it
\* returns, its message holds one block for each block stopped so far, in
\* the order of the stops: a text block with the concatenation of its
\* deltas, a tool block with the parse of the concatenation of its input
\* deltas (not before its stop)
C24_OneBlockPerStoppedBlock ==
  format = "anthropic" => content = BlocksStopped(pos - 1, TRUE)

\* C24 (amended): the same, for each tool block stopped so far and each text
\* block stopped so far that received text; a text block without text
\* leaves no block
C24_OneBlockPerStoppedNonEmptyBlock ==
  format = "anthropic" => content = BlocksStopped(pos - 1, FALSE)

\* C24 witness: a text block without text, a tool block whose payload came
\* in two fragments and a text block in two fragments were stopped
C24_Witness ==
  /\ format = "anthropic" /\ parserPc = "returned"
  /\ Len(sentBlocks) = 3
  /\ sentBlocks[1].kind = "text" /\ sentBlocks[1].fragments = <<"">>
  /\ content = <<ToolUse("tu2", "g", [kind |-> "object", a |-> 1]), TextBlock("Hello")>>

\* C26 (as claimed): an adapter that has read a line whose payload cannot be
\* parsed fails, which ends the exchange with an error event
C26_MalformedStreamIsFatal ==
  (format # "none" /\ \E i \in 1..(pos - 1) : stream[i].kind = "garbage")
    => parserPc = "threw"

\* C26 (amended): an adapter that reads a line whose payload cannot be
\* parsed skips it: it does not fail, keeps what it has built and passed to
\* onEvent, and goes on with the next line
C26_UnparsableLineIsSkipped ==
  [][ ( /\ format # "none" /\ parserPc = "loop" /\ pos <= Len(stream)
        /\ stream[pos].kind = "garbage" )
      => ( /\ parserPc' = "loop" /\ pos' = pos + 1
           /\ UNCHANGED << content, currentText, currentToolUse, textBuffer,
                           toolCallBuffers, finished, emitted >> ) ]_vars

\* C26 witness: a Format-A stream began with a line that is not JSON, and
\* the adapter returned the text block that followed
C26_Witness ==
  /\ format = "anthropic" /\ parserPc = "returned"
  /\ Len(stream) > 1 /\ stream[2].kind = "garbage"
  /\ content = <<TextBlock("Hello")>>
  /\ emitted = <<TextEvent("Hel"), TextEvent("lo")>>

\* the messages a message of the history becomes in Format B: n for a user
\* message made of n tool_result blocks, else one
Width(m) ==
  IF IsBlocks(m) /\ m.role = "user" /\ FilterType(m.content, "tool_result") # <<>>
  THEN Len(m.content) ELSE 1

\* the Format-B messages of the first n messages of the history
RECURSIVE WidthSum(_)
WidthSum(n) == IF n = 0 THEN 0 ELSE WidthSum(n - 1) + Width(messages[n])

\* C25: in the Format-B request body the messages translated so far stand
\* in the order of the history: a message with string content keeps role
\* and text; an assistant message with blocks stays one assistant message
\* with its text and its tool requests (same ids, names, order, no
\* tool_calls without request); a user message made of n tool_result blocks
\* becomes n consecutive messages of role tool, in order, each with the
\* tool_use_id and the content of its result.  In the Format-A request body
\* every message keeps its role and its blocks in order, a string content
\* being one text block.
C25_TranslationKeepsOrder ==
  /\ format = "openai" =>
       /\ Len(bodyMessages) = WidthSum(msgPos)
       /\ \A i \in 1..msgPos :
            LET m == messages[i]
                s == WidthSum(i - 1) + 1
                o == bodyMessages[s]
            IN IF ~IsBlocks(m) THEN o.role = m.role /\ o.content = m.text
               ELSE IF m.role = "assistant"
               THEN /\ o.role = "assistant"
                    /\ (IF o.content = Null THEN "" ELSE o.content)
                         = BlocksText(FilterType(m.content, "text"))
                    /\ LET tus == ToolUses(m)
                           calls == IF "tool_calls" \in DOMAIN o THEN o.tool_calls ELSE <<>>
                       IN /\ Len(calls) = Len(tus)
                          /\ "tool_calls" \in DOMAIN o => Len(tus) > 0
                          /\ \A k \in 1..Len(tus) :
                               calls[k].id = tus[k].id /\ calls[k].function.name = tus[k].name
               ELSE \A k \in 1..Width(m) :
                      /\ bodyMessages[s + k - 1].role = "tool"
                      /\ bodyMessages[s + k - 1].tool_call_id = m.content[k].tool_use_id
                      /\ bodyMessages[s + k - 1].content = m.content[k].content
  /\ (format = "anthropic" /\ msgPos > 0) =>
       /\ Len(bodyMessages) = Len(messages)
       /\ \A i \in 1..Len(messages) :
            /\ bodyMessages[i].role = messages[i].role
            /\ bodyMessages[i].content = IF IsBlocks(messages[i]) THEN messages[i].content
                                         ELSE <<TextBlock(messages[i].text)>>

\* C25 witness: a history with a turn of two tool requests was translated to
\* Format B: the assistant message carries the two requests and two tool
\* messages follow it, then the final assistant message
C25_Witness ==
  /\ format = "openai" /\ msgPos = Len(messages) /\ Len(messages) = 4
  /\ Len(bodyMessages) = 5
  /\ Len(bodyMessages[2].tool_calls) = 2
  /\ bodyMessages[3].role = "tool" /\ bodyMessages[3].tool_call_id = "tu1"
  /\ bodyMessages[4].role = "tool" /\ bodyMessages[4].tool_call_id = "tu2"
  /\ bodyMessages[5] = [role |-> "assistant", content |-> "2+2 is 4"]

\* the positions of the log where a delegation to collaborator id in
\* conversation key returned successfully
Completions(key, id) ==
  {n \in 1..Len(log) : /\ log[n].kind = "return" /\ log[n].ok
                       /\ log[n].key = key /\ log[n].id = id}

Latest(S) == CHOOSE n \in S : \A m \in S : m <= n

\* C27: when the two exchanges ran on the same conversation, each completed
\* a delegation to the same collaborator and both have finished, the token
\* stored for that collaborator is the one returned by the delegation that
\* completed last, whichever exchange made it, and neither exchange has
\* reported an error: both ended with done
C27_LaterWriteWins ==
  \A id \in CollaboratorIds :
    ( /\ pc[1] = "ended" /\ pc[2] = "ended"
      /\ Cid(1) = Cid(2)
      /\ \A e \in {1, 2} : \E n \in Completions(Cid(1), id) : log[n].exchange = e )
    => /\ StoredToken(conversationSessions, Cid(1), id)
            = log[Latest(Completions(Cid(1), id))].token
       /\ \A e \in {1, 2} :
            CountType(events[e], "error") = 0 /\ LastEvent(e) = DoneEvent

\* C27 witness: two delegations of different exchanges to the same
\* collaborator were both sent with the prior token s1 before either
\* returned, they returned different tokens, both exchanges have finished,
\* and the token of the later return is stored
C27_Witness ==
  \E i, j, k, l \in 1..Len(log) :
    /\ i < j /\ j < k /\ k < l
    /\ log[i].kind = "start" /\ log[j].kind = "start"
    /\ log[i].exchange # log[j].exchange
    /\ log[i].token = "s1" /\ log[j].token = "s1"
    /\ log[i].id = IdA /\ log[j].id = IdA
    /\ log[i].key = "c1" /\ log[j].key = "c1"
    /\ {k, l} \subseteq Completions("c1", IdA)
    /\ log[k].exchange # log[l].exchange
    /\ log[k].token # log[l].token
    /\ pc[1] = "ended" /\ pc[2] = "ended"
    /\ StoredToken(conversationSessions, "c1", IdA) = log[l].token

\* the token a delegation in conversation key would find for collaborator
\* id in the session objects all
Effective(all, key, id) ==
  IF key \in DOMAIN all THEN Lookup(PrototypeChain(all, key, all[key]), id) ELSE Undefined

\* C28: conversations are independent in the session state, under every
\* interleaving: a token sent by a delegation was returned earlier by the
\* same collaborator in the same conversation, and the token a conversation
\* has for a collaborator changes only in a step in which a delegation of
\* an exchange of that conversation returns
C28_ConversationsIndependent ==
  /\ [](\A n \in 1..Len(log) :
          (log[n].kind = "start" /\ Truthy(log[n].token))
          => \E m \in Completions(log[n].key, log[n].id) :
               m < n /\ log[m].token = log[n].token)
  /\ [][\A key \in ConversationKeys : \A id \in CollaboratorIds :
         Effective(conversationSessions', key, id) # Effective(conversationSessions, key, id)
         => \E e \in Exchanges :
              /\ pc[e] = "inCall" /\ Cid(e) = key
              /\ inflight'[e] # inflight[e]]_vars

\* the entry a step appended to the log as its first one, if any
Logged == IF Len(log') > Len(log) THEN {log'[Len(log) + 1]} ELSE {}

\* C30: a disconnect of the caller does not cancel the loop.  The step in
\* which the caller goes away changes nothing of the exchange; from then on
\* a call in flight stays in flight until its own return, a token returned
\* after the disconnect is stored like any other, and the exchange ends
\* only the way a connected one does, with done or error as its last event
\* and no call left in flight.
C30_DisconnectCancelsNothing ==
  /\ [][\A e \in Exchanges :
          /\ closedAt'[e] # closedAt[e] => UNCHANGED exchangeVars
          /\ (closedAt[e] # {} /\ inflight'[e] # inflight[e] /\ inflight[e] # {})
             => \E entry \in Logged : entry.kind = "return" /\ entry.exchange = e
          /\ \A entry \in Logged :
               (closedAt[e] # {} /\ entry.kind = "return" /\ entry.exchange = e /\ entry.ok)
               => StoredToken(conversationSessions', entry.key, entry.id) = entry.token]_vars
  /\ [](\A e \in Exchanges :
          (closedAt[e] # {} /\ pc[e] = "ended")
          => /\ inflight[e] = {}
             /\ events[e] # <<>>
             /\ LastEvent(e).type \in {"done", "error"})

\* C30 witness: the caller went away before the first event; the exchange
\* still made delegations in turn 0 and in turn 1, the token returned by the
\* second one is stored, and the exchange ended with done
C30_Witness ==
  /\ closedAt[1] = {0}
  /\ pc[1] = "ended"
  /\ LastEvent(1) = DoneEvent
  /\ \E i, j \in 1..Len(events[1]) :
       /\ events[1][i].type = "tool_call" /\ eventTurn[1][i] = 0
       /\ events[1][j].type = "tool_call" /\ eventTurn[1][j] = 1
  /\ \E k, l \in Completions("c1", IdA) :
       /\ k < l /\ log[k].exchange = 1 /\ log[l].exchange = 1
       /\ log[k].token = "s1" /\ log[l].token = "s2"
       /\ \A m \in Completions("c1", IdA) : m <= l
  /\ StoredToken(conversationSessions, "c1", IdA) = "s2"

\* C29: when every probe, model call and delegation comes back (by its
\* answer, its failure or its timeout), an accepted exchange eventually has
\* ended, with done or error as its last event and no call in flight:
\* nothing the model or a collaborator answers keeps the loop turning
C29_AcceptedExchangeTerminates ==
  \A e \in {1} :
    (pc[e] \in {"probing", "awaitLLM", "inCall"})
      ~> ( /\ pc[e] = "ended"
           /\ inflight[e] = {}
           /\ events[e] # <<>>
           /\ events[e][Len(events[e])].type \in {"done", "error"} )

\* C29 witness: the model asked for a tool in every one of the MAX_TURNS
\* turns, a delegation before that timed out, and the exchange has ended
C29_Witness ==
  /\ pc[1] = "ended"
  /\ turn[1] = MAX_TURNS
  /\ LastEvent(1) = DoneEvent
  /\ \E i \in 1..Len(events[1]) :
       events[1][i] = ToolResultEvent(NameA, CallFailedPrefix
                                      \o "The operation was aborted due to timeout")

\* C40: every exchange whose request has no conversationId works on the
\* session entry 'default': when it starts a delegation, the call carries
\* the token that the latest successful delegation to that collaborator
\* under 'default' returned (when that token is a non-empty string), in
\* whichever exchange that delegation was made
C40_NoIdSharesDefault ==
  [][\A e \in Exchanges : \A call \in inflight'[e] \ inflight[e] :
       req[e].conversationId = Undefined
       => /\ Cid(e) = "default"
          /\ Truthy(lastToken'[<<"default", call.subAgentId>>])
             => call.body.session_id = lastToken'[<<"default", call.subAgentId>>]]_vars

\* C40 witness: two exchanges without an id; the first received the token
\* s1, and the first delegation of the second is sent with it
C40_Witness ==
  /\ req[1].conversationId = Undefined /\ req[2].conversationId = Undefined
  /\ pc[1] = "ended"
  /\ \E i \in 1..Len(events[1]) : events[1][i] = ToolResultEvent(NameA, "42")
  /\ \E call \in inflight[2] :
       /\ call.turn = 0 /\ call.idx = 1 /\ call.subAgentId = IdA
       /\ call.body.session_id = "s1"

\* C33: the tools of a registry have different names, so the entry runChat
\* finds for the name of a tool is the entry of that tool
C33_ToolNamesUnique ==
  /\ \A i, j \in 1..Len(registry) :
       i # j => registry[i].tool.name # registry[j].tool.name
  /\ regPc = "found" /\ found # NoFind => found.entry = found.asked

\* runChat of message m is running: a model call or a tool call is awaited
InRunChat(m) == handler[m].pc \in {"calling", "dispatching"}

\* no message other than m has been handled since m arrived
Alone(m) == \A o \in Messages \ {m} : handler[o].pc \in {"idle", "nomodel"}

\* C32: runChat never changes the list it was given: every step of a
\* running runChat changes its own list only by appending one message at
\* its end (an assistant message after a model call, a user message with
\* the tool results after the tool calls), the messages it was given
\* staying at the front; while it runs it leaves the caller's list as it
\* is, and when it returns or throws the caller's list is what it was
\* before that step, which is the list at the call when nobody else
\* touched it
C32_RunChatLeavesGivenList ==
  [][\A m \in Messages :
       (InRunChat(m) /\ handler'[m] # handler[m]) =>
         LET own == handler[m].history
             after == handler'[m].history IN
         /\ Len(after) \in {Len(own), Len(own) + 1}
         /\ SubSeq(after, 1, Len(own)) = own
         /\ SubSeq(after, 1, Len(handler[m].given)) = handler[m].given
         /\ Len(after) > Len(own) =>
              after[Len(after)].role =
                IF handler[m].pc = "calling" THEN "assistant" ELSE "user"
         /\ InRunChat(m)' => sessionHistory' = sessionHistory
         /\ ~InRunChat(m)' =>
              /\ handler'[m].left = sessionHistory
              /\ Alone(m) => handler'[m].left = handler[m].given]_vars

\* C32 witness: runChat of message 1 has returned after a tool round; it
\* appended three messages to its own list and left the list it was given,
\* a full history and the user entry, as it was
C32_Witness ==
  /\ handler[1].pc = "done"
  /\ Len(handler[1].given) = HISTORY_LIMIT + 1
  /\ Len(handler[1].history) = Len(handler[1].given) + 3
  /\ handler[1].left = handler[1].given

\* the positions of entry x in list h
Positions(h, x) == {i \in 1..Len(h) : h[i] = x}

\* list h without its entry at position i
Without(h, i) == SubSeq(h, 1, i - 1) \o SubSeq(h, i + 1, Len(h))

\* C34: when handling message m fails, the catch block removes exactly the
\* user entry m appended and nothing else, whatever other messages of the
\* chat are being handled; when no other message has been handled since m
\* arrived, the history is then what it was when m arrived
C34_RollbackRemovesOwnEntry ==
  [][\A m \in Messages :
       (InRunChat(m) /\ handler'[m].pc = "failed") =>
         LET own == Positions(sessionHistory, TextMessage("user", UserText(m))) IN
         /\ own # {}
         /\ \E i \in own : sessionHistory' = Without(sessionHistory, i)
         /\ Alone(m) => sessionHistory' = handler[m].arrived]_vars

\* the history of the success path of message m before it is limited
Full(m) ==
  IF handler'[m].fullText # <<>>
  THEN Append(sessionHistory, TextMessage("assistant", handler'[m].fullText))
  ELSE sessionHistory

\* C35 (as claimed): whenever a handler finishes, on either path, the
\* stored history has at most 40 entries, and the success path keeps the
\* newest entries in their order
C35_FinishedWithinLimit ==
  [][\A m \in Messages :
       (InRunChat(m) /\ handler'[m].pc \in {"done", "failed"}) =>
         /\ Len(sessionHistory') <= HISTORY_LIMIT
         /\ handler'[m].pc = "done" =>
              sessionHistory' = SliceLast(Full(m), Len(sessionHistory'))]_vars

\* C35 (amended): the success path ends with at most 40 entries, made of
\* the newest entries of the history and the reply in their order; at any
\* time the history has at most 40 entries and one more for every message
\* that has pushed its user entry and not finished, hence at most 40 when
\* no message of the chat is being handled
C35_LimitOnSuccessPath ==
  /\ [][\A m \in Messages :
          (InRunChat(m) /\ handler'[m].pc = "done") =>
            /\ Len(sessionHistory') <= HISTORY_LIMIT
            /\ Len(sessionHistory') = IF Len(Full(m)) > HISTORY_LIMIT
                                       THEN HISTORY_LIMIT ELSE Len(Full(m))
            /\ sessionHistory' = SliceLast(Full(m), Len(sessionHistory'))]_vars
  /\ [](Len(sessionHistory)
          <= HISTORY_LIMIT + Cardinality({m \in Messages : InRunChat(m)}))

\* C35 witness: message 1 failed and message 2 succeeded on a history that
\* was full: the two oldest entries were dropped for the user entry and
\* the reply of message 2
C35_Witness ==
  /\ handler[1].pc = "failed" /\ handler[2].pc = "done"
  /\ Len(sessionHistory) = HISTORY_LIMIT
  /\ sessionHistory[1] = OldEntry(3)
  /\ sessionHistory[HISTORY_LIMIT] = TextMessage("assistant", ReplyText(2))

\* instance i is the one the manager holds for its channel id
Managed(i) == i \in 1..Len(inst) /\ channels[inst[i].id] = i

\* C31: every conversation is given the default model of the configuration
\* saved last (the marked model, or the first when none is marked): a web
\* chat exchange, and a message arriving on a channel that the manager
\* holds and that was started before the save
C31_LatestDefaultModelUsed ==
  [][/\ WebChat => used' = ChannelModel(saved.models)
     /\ \A i \in Instances :
          (Managed(i) /\ ~inst[i].stopped /\ ChannelMessage(i))
            => used' = ChannelModel(saved.models)]_vars

\* the entries of the saved configuration that ask for a channel id: the
\* enabled ones of type qq
Wanted(id) ==
  {k \in 1..Len(saved.channels) :
     /\ saved.channels[k].id = id
     /\ saved.channels[k].enabled
     /\ saved.channels[k].type = "qq"}

\* C36: when the sync calls made so far have completed, the manager holds
\* an instance for a channel id exactly when the configuration of the
\* latest call has an enabled channel of type qq with that id, and the
\* instance is running with the credentials of that entry
C36_ManagedAreLatestEnabled ==
  \A id \in ChannelIds :
    /\ channels[id] # 0 <=> Wanted(id) # {}
    /\ channels[id] # 0 =>
         /\ ~inst[channels[id]].stopped
         /\ \E k \in Wanted(id) :
              /\ inst[channels[id]].appId = saved.channels[k].appId
              /\ inst[channels[id]].clientSecret = saved.channels[k].appSecret

\* the instances of a channel id that hold a socket
Live(id) == {i \in 1..Len(inst) : inst[i].id = id /\ inst[i].ws \in LiveSocket}

\* C37: at any time at most one instance of a channel id holds a socket;
\* an instance the manager no longer holds has been stopped, a stopped
\* instance opens no socket, and sync keeps the instance of an enabled
\* channel whose appId and appSecret are unchanged
C37_OneLiveInstance ==
  /\ [](\A id \in ChannelIds : Cardinality(Live(id)) <= 1)
  /\ [](\A i \in 1..Len(inst) : ~Managed(i) => inst[i].stopped)
  /\ [][\A i \in 1..Len(inst) : inst[i].stopped => (inst'[i].ws \in LiveSocket => inst[i].ws \in LiveSocket)]_vars
  /\ [][\A config \in Configs : \A i \in 1..Len(inst) :
          ( /\ SaveSettings(config)
            /\ Managed(i)
            /\ \E k \in 1..Len(config.channels) :
                 /\ config.channels[k].enabled
                 /\ config.channels[k].id = inst[i].id
                 /\ config.channels[k].appId = inst[i].appId
                 /\ config.channels[k].appSecret = inst[i].clientSecret )
          => Managed(i)' /\ inst'[i] = inst[i]]_vars

\* C38: once stop() was called on an instance it holds no socket and its
\* status is 'disconnected', whatever request of start(), of a token
\* refresh or of a reconnect was pending at the call, and it starts no
\* gateway request and no token refresh
C38_StoppedStaysStopped ==
  /\ [](\A i \in 1..Len(inst) :
          inst[i].stopped =>
            inst[i].ws \notin LiveSocket /\ inst[i].status = "disconnected")
  /\ [][\A i \in 1..Len(inst) :
          inst[i].stopped =>
            /\ inst'[i].task \in {inst[i].task, "none"}
            /\ inst'[i].refreshing => inst[i].refreshing]_vars

\* C39: an instance that is not stopped and whose status is 'connecting'
\* has a connect attempt in progress (a token or gateway request, a socket
\* not yet ready) or scheduled (the reconnect timer); a close with
\* another code than 4013 and 4014 sets 'connecting'
\* and schedules a reconnect, a close with 4013 or 4014 sets 'error' and
\* schedules none
C39_ConnectingHasAttempt ==
  /\ [](\A i \in 1..Len(inst) :
          (~inst[i].stopped /\ inst[i].status = "connecting")
            => \/ inst[i].task # "none"
               \/ inst[i].reconnectTimer
               \/ inst[i].ws \in LiveSocket)
  /\ [][\A i \in 1..Len(inst) : \A code \in CloseCodes :
          (~inst[i].stopped /\ WsClose(i, code)) =>
            IF code \in PERMANENT_ERRORS
            THEN inst'[i].status = "error" /\ ~inst'[i].reconnectTimer
                 /\ inst'[i].task = "none"
            ELSE inst'[i].status = "connecting" /\ inst'[i].reconnectTimer]_vars
====
